---------------------------- MODULE Spec2Model ----------------------------
(***************************************************************************)
(* uWSGI Prometheus metrics exporter plugin (plugin.c).                    *)
(*                                                                         *)
(* Byte strings are sequences of one-character strings, so that every      *)
(* append, every separator and every length of the C code is visible.      *)
(***************************************************************************)
EXTENDS Integers, Sequences, FiniteSets, TLC

(***************************************************************************)
(* Bounds of the model.                                                    *)
(***************************************************************************)
\* segments per generated dotted name (pure name translation)
MaxSegs == 5
\* records in a generated registry (generation pass)
MaxRecords == 3
\* client connections of the dedicated server
MaxClients == 2
\* master cycles (ticks) of one run
MaxTicks == 2
\* metric updates of the writer in one run
MaxWrites == 2

(***************************************************************************)
(* Program constants.                                                      *)
(***************************************************************************)
\* char segment[256]
SEGMENT_SIZE == 256
\* char label_names[4][16]
LABEL_NAMES_COUNT == 4

(***************************************************************************)
(* String literals of the source.                                          *)
(***************************************************************************)
Digits == {"0","1","2","3","4","5","6","7","8","9"}
Letters ==
    {"a","b","c","d","e","f","g","h","i","j","k","l","m",
     "n","o","p","q","r","s","t","u","v","w","x","y","z",
     "A","B","C","D","E","F","G","H","I","J","K","L","M",
     "N","O","P","Q","R","S","T","U","V","W","X","Y","Z"}

DEFAULT_PREFIX == <<"u","w","s","g","i","_">>
TOTAL_SUFFIX == <<"_","t","o","t","a","l">>
HELP_PREFIX == <<"#"," ","H","E","L","P"," ">>
TYPE_PREFIX == <<"#"," ","T","Y","P","E"," ">>
WORKER_DOT == <<"w","o","r","k","e","r",".">>
SP == <<" ">>
LF == <<"\n">>
CRLF == <<"\r","\n">>

\* the first n bytes of a literal: uwsgi_buffer_append(ub, buf, n)
Bytes(s, n) == SubSeq(s, 1, n)

(***************************************************************************)
(* prometheus_format_metric_name                                           *)
(***************************************************************************)
label_names_swapped ==
    << <<"w","o","r","k","e","r">>, <<"t","h","r","e","a","d">>,
       <<"c","o","r","e">>, <<"i","d">> >>
label_names ==
    << <<"w","o","r","k","e","r">>, <<"c","o","r","e">>,
       <<"t","h","r","e","a","d">>, <<"i","d">> >>

\* uwsgi_buffer_append on one of the two conversion buffers; `allow` lists
\* the outcome of the next appends (FALSE: the append fails, realloc failed),
\* an exhausted list means that every further append succeeds.
FmtAppend(st, buf, s) ==
    IF st.rc # 0 THEN st
    ELSE IF st.allow # <<>> /\ ~Head(st.allow)
         THEN [st EXCEPT !.rc = -1]
         ELSE [st EXCEPT ![buf] = @ \o s,
                         !.allow = IF @ = <<>> THEN @ ELSE Tail(@)]

\* lines 147-152: every byte of the segment is a digit
SegmentIsNumeric(segment) == \A j \in 1..Len(segment) : segment[j] \in Digits

\* lines 178-183: the byte stored into segment[]
SanitizeChar(c) ==
    IF c \in Letters \/ c \in Digits \/ c = "_" THEN c ELSE "_"

\* lines 155-165: a numeric segment
FmtNumericSegment(st) ==
    LET s1 == IF Len(st.labels_buf) > 0
              THEN FmtAppend(st, "labels_buf", <<",">>) ELSE st
        s2 == FmtAppend(s1, "labels_buf", label_names[st.label_index + 1])
        s3 == FmtAppend(s2, "labels_buf", Bytes(<<"=","\"">>, 2))
        s4 == FmtAppend(s3, "labels_buf", st.segment)
        s5 == FmtAppend(s4, "labels_buf", <<"\"">>)
        s6 == IF st.label_index < LABEL_NAMES_COUNT
              THEN (IF s5.rc = 0 THEN [s5 EXCEPT !.label_index = @ + 1] ELSE s5)
              ELSE st
    IN  IF s6.rc = 0 THEN [s6 EXCEPT !.in_numeric_sequence = TRUE] ELSE s6

\* lines 167-171: a text segment
FmtTextSegment_always_separated(st, prefix) ==
    LET s1 == IF Len(st.name_buf) > Len(prefix)
              THEN FmtAppend(st, "name_buf", <<"_">>) ELSE st
        s2 == FmtAppend(s1, "name_buf", st.segment)
    IN  IF s2.rc = 0 THEN [s2 EXCEPT !.in_numeric_sequence = FALSE] ELSE s2
FmtTextSegment(st, prefix) ==
    LET s1 == IF Len(st.name_buf) > Len(prefix) /\ ~st.in_numeric_sequence
              THEN FmtAppend(st, "name_buf", <<"_">>) ELSE st
        s2 == FmtAppend(s1, "name_buf", st.segment)
    IN  IF s2.rc = 0 THEN [s2 EXCEPT !.in_numeric_sequence = FALSE] ELSE s2

\* lines 143-174: the end of a segment (a '.' or the end of the name)
FmtEndSegment(st, prefix) ==
    IF Len(st.segment) > 0
    THEN LET s1 == IF SegmentIsNumeric(st.segment) /\ Len(st.segment) > 0
                   THEN FmtNumericSegment(st)
                   ELSE FmtTextSegment(st, prefix)
         IN  IF s1.rc = 0 THEN [s1 EXCEPT !.segment = <<>>] ELSE s1
    ELSE st

\* lines 176-184: one more byte of the current segment
FmtStoreChar_whole_buffer(st, c) ==
    IF Len(st.segment) < SEGMENT_SIZE
    THEN [st EXCEPT !.segment = Append(@, SanitizeChar(c))]
    ELSE st
FmtStoreChar(st, c) ==
    IF Len(st.segment) < SEGMENT_SIZE - 1
    THEN [st EXCEPT !.segment = Append(@, SanitizeChar(c))]
    ELSE st

\* lines 143-185: one iteration of the loop; a return inside the loop ends it
FmtIteration(st, metric_name, i, prefix) ==
    IF st.rc # 0 THEN st
    ELSE IF i = Len(metric_name) + 1 \/ metric_name[i] = "."
    THEN FmtEndSegment(st, prefix)
    ELSE FmtStoreChar(st, metric_name[i])

\* the iterations i = lo .. hi in order, the first half and then the second
RECURSIVE FmtIterations(_, _, _, _, _)
FmtIterations(st, metric_name, lo, hi, prefix) ==
    IF lo > hi THEN st
    ELSE IF lo = hi THEN FmtIteration(st, metric_name, lo, prefix)
    ELSE LET mid == (lo + hi) \div 2
             half == FmtIterations(st, metric_name, lo, mid, prefix)
         IN  IF half.rc # 0 THEN half
             ELSE FmtIterations(half, metric_name, mid + 1, hi, prefix)

\* lines 142-186: the loop, i = 0 .. metric_name_len (here 1 .. Len + 1)
FmtLoop(st, metric_name, i, prefix) ==
    FmtIterations(st, metric_name, i, Len(metric_name) + 1, prefix)

\* lines 128-189; the result is [rc, name_buf, labels_buf]
prometheus_format_metric_name(metric_name, prefix, allow) ==
    LET st0 == [name_buf |-> <<>>, labels_buf |-> <<>>, segment |-> <<>>,
                label_index |-> 0, in_numeric_sequence |-> FALSE,
                allow |-> allow, rc |-> 0]
        st1 == FmtAppend(st0, "name_buf", prefix)
        st2 == FmtLoop(st1, metric_name, 1, prefix)
    IN  [rc |-> st2.rc, name_buf |-> st2.name_buf, labels_buf |-> st2.labels_buf]


(***************************************************************************)
(* State.                                                                  *)
(***************************************************************************)
VARIABLES
    ump_config,    \* struct uwsgi_metrics_prometheus_config
    uwsgi,         \* the host: has_metrics, metrics (the registry), master_process
    metric_value,  \* *um->value of every record of the registry
    metrics_lock,  \* uwsgi.metrics_lock: the readers holding it, the writer flag
    writer,        \* the host's metric writer (outside the plugin)
    gen,           \* prometheus_generate_metrics: one activation per process
    route,         \* uwsgi_routing_func_prometheus_metrics: one per worker
    server,        \* the dedicated server in the master process
    clients,       \* the peers of the dedicated server
    held,          \* history: values every metric held during a pass
    env,           \* whether this run's environment makes appends and I/O fail
    tr             \* input and result of one prometheus_format_metric_name call

vars == <<ump_config, uwsgi, metric_value, metrics_lock, writer, gen, route,
          server, clients, held, env, tr>>

Workers == {"w1", "w2"}
Master == "master"
Procs == Workers \cup {Master}

\* UWSGI_METRIC_COUNTER, _GAUGE, _ABSOLUTE, and one more tag (_ALIAS)
MetricTypes == {"COUNTER", "GAUGE", "ABSOLUTE", "ALIAS"}

(***************************************************************************)
(* seen_names_*: a singly linked list, new nodes at the head.              *)
(***************************************************************************)
seen_names_create == <<>>

seen_names_contains_never(head, name) == FALSE
seen_names_contains(head, name) ==
    \E k \in 1..Len(head) : Len(head[k]) = Len(name) /\ head[k] = name

\* uwsgi_malloc ends the process when the allocation fails and never returns
\* NULL, so the two "return head" exits (lines 83, 86-89) are not taken.
seen_names_add(head, name) == <<name>> \o head

(***************************************************************************)
(* Host helpers used by the pass.                                          *)
(***************************************************************************)
\* uwsgi_starts_with(src, slen, dst, dlen)
uwsgi_starts_with_whole(src, dst, dlen) == src = SubSeq(dst, 1, dlen)
uwsgi_starts_with(src, dst, dlen) ==
    Len(src) >= dlen /\ SubSeq(src, 1, dlen) = SubSeq(dst, 1, dlen)

DigitChar(d) ==
    CASE d = 0 -> "0" [] d = 1 -> "1" [] d = 2 -> "2" [] d = 3 -> "3"
      [] d = 4 -> "4" [] d = 5 -> "5" [] d = 6 -> "6" [] d = 7 -> "7"
      [] d = 8 -> "8" [] d = 9 -> "9"

RECURSIVE NatDigits(_)
NatDigits(n) == IF n < 10 THEN <<DigitChar(n)>>
                ELSE NatDigits(n \div 10) \o <<DigitChar(n % 10)>>

\* uwsgi_buffer_num64: the decimal text of an int64 ("%lld")
Num64(n) == IF n < 0 THEN <<"-">> \o NatDigits(-n) ELSE NatDigits(n)

(***************************************************************************)
(* prometheus_generate_metrics                                             *)
(***************************************************************************)
\* line 211
ConfigPrefix(cfg) == IF cfg.prefix_set THEN cfg.prefix ELSE DEFAULT_PREFIX

\* lines 268-279
prom_type_absolute_counter(type) ==
    CASE type = "COUNTER" -> <<"c","o","u","n","t","e","r">>
      [] type = "GAUGE" -> <<"g","a","u","g","e">>
      [] type = "ABSOLUTE" -> <<"c","o","u","n","t","e","r">>
      [] OTHER -> <<"u","n","t","y","p","e","d">>
prom_type(type) ==
    CASE type = "COUNTER" -> <<"c","o","u","n","t","e","r">>
      [] type = "GAUGE" -> <<"g","a","u","g","e">>
      [] type = "ABSOLUTE" -> <<"g","a","u","g","e">>
      [] OTHER -> <<"u","n","t","y","p","e","d">>

\* lines 245-251: the type that gets the _total suffix
TakesTotalSuffix_gauge_too(type) == type \in {"COUNTER", "GAUGE"}
TakesTotalSuffix(type) == type = "COUNTER"

\* the state of one pass; src (the records behind the metric lines written so
\* far), append_failed (an append outside the name translation has failed in
\* this pass), fmt_failed (the records whose name translation has failed in
\* this pass), rlocks (the calls of uwsgi_rlock so far) and snaps (the values
\* the metrics held together, instant after instant, since the pass started)
\* are history
\* the buffers of one request and what has been done with each: "none" (not
\* allocated), "live", "destroyed", and "bad" once it is allocated while live,
\* or destroyed or used while not live
Buffers == {"ub", "name_buf", "labels_buf", "seen_names", "response"}
MemNone == [b \in Buffers |-> "none"]

RECURSIVE MemApply(_, _, _)
MemApply(m, op, bs) ==
    IF Len(bs) = 0 THEN m
    ELSE LET b == Head(bs)
             to == IF op = "new" THEN (IF m[b] = "live" THEN "bad" ELSE "live")
                   ELSE IF op = "destroy"
                   THEN (IF m[b] = "live" THEN "destroyed" ELSE "bad")
                   ELSE (IF m[b] = "live" THEN "live" ELSE "bad")
         IN  MemApply([m EXCEPT ![b] = IF @ = "bad" THEN "bad" ELSE to],
                      op, Tail(bs))

\* uwsgi_buffer_new and seen_names_create; uwsgi_buffer_destroy and
\* seen_names_destroy; any read or append
Allocated(m, bs) == MemApply(m, "new", bs)
Destroyed(m, bs) == MemApply(m, "destroy", bs)
Used(m, bs) == MemApply(m, "use", bs)

\* lines 192-209: what the pass allocates
GenAllocations == <<"ub", "name_buf", "labels_buf", "seen_names">>
\* lines 215-217 and 310-312: what the pass destroys before it returns ub
GenSuccessCleanup == <<"name_buf", "labels_buf", "seen_names">>
\* lines 316-319: what the pass destroys at the error label
GenErrorCleanup_keeps_ub == <<"name_buf", "labels_buf", "seen_names">>
GenErrorCleanup == <<"name_buf", "labels_buf", "ub", "seen_names">>

GenIdle ==
    [pc |-> "idle", um |-> 0, name_buf |-> <<>>, labels_buf |-> <<>>,
     seen_names |-> <<>>, ub |-> <<>>, value |-> 0, ret |-> "none",
     src |-> <<>>, append_failed |-> FALSE, rlocks |-> 0, snaps |-> <<>>,
     fmt_failed |-> {}, mem |-> MemNone]

\* lines 315-320
GenError(g) ==
    [GenIdle EXCEPT !.pc = "ret", !.ret = "NULL", !.append_failed = TRUE,
                    !.mem = Destroyed(g.mem, GenErrorCleanup)]

\* lines 310-313, and 215-218
GenSuccess_keeps_buffers(g) ==
    [g EXCEPT !.pc = "ret", !.ret = "ub",
              !.mem = Destroyed(g.mem, GenSuccessCleanup)]
GenSuccess(g) ==
    [GenIdle EXCEPT !.pc = "ret", !.ret = "ub", !.ub = g.ub, !.src = g.src,
                    !.append_failed = g.append_failed, !.rlocks = g.rlocks,
                    !.snaps = g.snaps, !.fmt_failed = g.fmt_failed,
                    !.mem = Destroyed(g.mem, GenSuccessCleanup)]

\* lines 192-221: entry of the function, up to the first record
GenEnter_unavailable_is_error(host) ==
    LET g == [GenIdle EXCEPT !.seen_names = seen_names_create,
                             !.mem = Allocated(MemNone, GenAllocations)]
    IN  IF ~host.has_metrics \/ host.metrics = <<>>
        THEN GenError(g)
        ELSE [g EXCEPT !.pc = "record", !.um = 1]
GenEnter(host) ==
    LET g == [GenIdle EXCEPT !.seen_names = seen_names_create,
                             !.mem = Allocated(MemNone, GenAllocations)]
    IN  IF ~host.has_metrics \/ host.metrics = <<>>
        THEN GenSuccess(g)
        ELSE [g EXCEPT !.pc = "record", !.um = 1]

\* lines 256-262
HelpLine(name, raw) ==
    Bytes(HELP_PREFIX, 7) \o name \o Bytes(SP, 1) \o raw \o Bytes(LF, 1)

\* lines 265-283
TypeLine(name, type) ==
    Bytes(TYPE_PREFIX, 7) \o name \o Bytes(SP, 1) \o prom_type(type) \o Bytes(LF, 1)

\* lines 290-298: the metric line up to the space before the value
LineHead(name, labels) ==
    name \o (IF Len(labels) > 0 THEN <<"{">> \o labels \o <<"}">> ELSE <<>>)
         \o Bytes(SP, 1)

\* lines 253-298 for a record whose name is in name_buf; fail names the
\* group of appends to the output buffer in which one append fails
GenEmitHead_help_always(g, rec, cfg, fail) ==
    LET name == g.name_buf
        is_new_metric == ~seen_names_contains(g.seen_names, name)
        help == is_new_metric
        type == is_new_metric /\ cfg.include_type
    IN  IF (help /\ fail = "help") \/ (type /\ fail = "type") \/ fail = "line"
        THEN GenError(g)
        ELSE [g EXCEPT
                !.ub = @ \o (IF help THEN HelpLine(name, rec.name) ELSE <<>>)
                         \o (IF type THEN TypeLine(name, rec.type) ELSE <<>>)
                         \o LineHead(name, g.labels_buf),
                !.seen_names = IF is_new_metric
                               THEN seen_names_add(@, name) ELSE @,
                !.pc = "rlock"]
GenEmitHead(g, rec, cfg, fail) ==
    LET name == g.name_buf
        is_new_metric == ~seen_names_contains(g.seen_names, name)
        help == is_new_metric /\ cfg.include_help
        type == is_new_metric /\ cfg.include_type
    IN  IF (help /\ fail = "help") \/ (type /\ fail = "type") \/ fail = "line"
        THEN GenError(g)
        ELSE [g EXCEPT
                !.ub = @ \o (IF help THEN HelpLine(name, rec.name) ELSE <<>>)
                         \o (IF type THEN TypeLine(name, rec.type) ELSE <<>>)
                         \o LineHead(name, g.labels_buf),
                !.seen_names = IF is_new_metric
                               THEN seen_names_add(@, name) ELSE @,
                !.pc = "rlock"]

\* lines 223-298: one record, from the top of the loop to the value read
GenRecordStep_format_failure_aborts(g, rec, cfg, fail, allow) ==
    LET skip == [g EXCEPT !.um = @ + 1]
        f == prometheus_format_metric_name(rec.name, ConfigPrefix(cfg), allow)
        translated == [g EXCEPT !.name_buf = f.name_buf,
                                !.labels_buf = f.labels_buf]
    IN  IF Len(rec.name) = 0 \/ ~rec.has_value THEN skip
        ELSE IF cfg.no_workers /\ uwsgi_starts_with(rec.name, WORKER_DOT, 7)
        THEN skip
        ELSE IF f.rc < 0
        THEN [GenError(g) EXCEPT !.append_failed = FALSE, !.fmt_failed = {g.um}]
        ELSE IF Len(f.name_buf) = 0 THEN [translated EXCEPT !.um = @ + 1]
        ELSE IF TakesTotalSuffix(rec.type)
        THEN IF fail = "suffix"
             THEN [translated EXCEPT !.um = @ + 1, !.append_failed = TRUE]
             ELSE GenEmitHead([translated EXCEPT
                                 !.name_buf = @ \o Bytes(TOTAL_SUFFIX, 6)],
                              rec, cfg, fail)
        ELSE GenEmitHead(translated, rec, cfg, fail)
GenRecordStep(g, rec, cfg, fail, allow) ==
    LET skip == [g EXCEPT !.um = @ + 1]
        f == prometheus_format_metric_name(rec.name, ConfigPrefix(cfg), allow)
        translated == [g EXCEPT !.name_buf = f.name_buf,
                                !.labels_buf = f.labels_buf]
    IN  IF Len(rec.name) = 0 \/ ~rec.has_value THEN skip
        ELSE IF cfg.no_workers /\ uwsgi_starts_with(rec.name, WORKER_DOT, 7)
        THEN skip
        ELSE IF f.rc < 0
        THEN [translated EXCEPT !.um = @ + 1, !.fmt_failed = @ \cup {g.um}]
        ELSE IF Len(f.name_buf) = 0 THEN [translated EXCEPT !.um = @ + 1]
        ELSE IF TakesTotalSuffix(rec.type)
        THEN IF fail = "suffix"
             THEN [translated EXCEPT !.um = @ + 1, !.append_failed = TRUE]
             ELSE GenEmitHead([translated EXCEPT
                                 !.name_buf = @ \o Bytes(TOTAL_SUFFIX, 6)],
                              rec, cfg, fail)
        ELSE GenEmitHead(translated, rec, cfg, fail)

\* the append outcomes tried for one record
FailPoints == {"none", "suffix", "help", "type", "line"}
FmtAllows == {<<>>, <<FALSE>>, <<TRUE, TRUE, FALSE>>}

\* the outcomes this run's environment can produce
AppendFaults(e) == IF e.faults THEN FailPoints ELSE {"none"}
FmtFaults(e) == IF e.faults THEN FmtAllows ELSE {<<>>}
IoOutcomes(e) == IF e.faults THEN BOOLEAN ELSE {TRUE}


(***************************************************************************)
(* uwsgi.metrics_lock: a read-write lock (uwsgi_rlock, uwsgi_wlock,        *)
(* uwsgi_rwunlock).                                                        *)
(***************************************************************************)
LockFree == [readers |-> {}, writer |-> FALSE]

\* uwsgi_rlock returns once no writer holds the lock
rlock_ready_always(lock) == TRUE
rlock_ready_exclusive(lock) == ~lock.writer /\ lock.readers = {}
rlock_ready(lock) == ~lock.writer

\* uwsgi_wlock returns once nobody holds the lock
wlock_ready_ignores_readers(lock) == ~lock.writer
wlock_ready(lock) == ~lock.writer /\ lock.readers = {}

(***************************************************************************)
(* The generation pass, step by step.  The steps between two value reads   *)
(* touch only the buffers of the pass and the registry's names and types,  *)
(* which nothing changes after startup; each value read is three steps.    *)
(***************************************************************************)
\* lines 222-298: the next record of the registry
GenRecord(p) ==
    /\ gen[p].pc = "record"
    /\ gen[p].um <= Len(uwsgi.metrics)
    /\ \E fail \in AppendFaults(env), allow \in FmtFaults(env) :
         gen' = [gen EXCEPT ![p] =
                   GenRecordStep([@ EXCEPT !.mem = Used(@, GenAllocations)],
                                 uwsgi.metrics[@.um], ump_config, fail, allow)]
    /\ UNCHANGED <<ump_config, uwsgi, metric_value, metrics_lock, writer, route,
                   server, clients, held, env, tr>>

\* lines 308-313: the end of the list
GenReturn(p) ==
    /\ gen[p].pc = "record"
    /\ gen[p].um > Len(uwsgi.metrics)
    /\ gen' = [gen EXCEPT ![p] = GenSuccess(@)]
    /\ UNCHANGED <<ump_config, uwsgi, metric_value, metrics_lock, writer, route,
                   server, clients, held, env, tr>>

\* line 300
GenRLock(p) ==
    /\ gen[p].pc = "rlock"
    /\ rlock_ready(metrics_lock)
    /\ metrics_lock' = [metrics_lock EXCEPT !.readers = @ \cup {p}]
    /\ gen' = [gen EXCEPT ![p].pc = "read", ![p].rlocks = @ + 1]
    /\ UNCHANGED <<ump_config, uwsgi, metric_value, writer, route, server,
                   clients, held, env, tr>>

\* line 301
GenReadValue(p) ==
    /\ gen[p].pc = "read"
    /\ gen' = [gen EXCEPT ![p].value = metric_value[gen[p].um],
                          ![p].pc = "unlock"]
    /\ UNCHANGED <<ump_config, uwsgi, metric_value, metrics_lock, writer, route,
                   server, clients, held, env, tr>>

\* line 302
GenRWUnlock(p) ==
    /\ gen[p].pc = "unlock"
    /\ metrics_lock' = [metrics_lock EXCEPT !.readers = @ \ {p}]
    /\ gen' = [gen EXCEPT ![p].pc = "value"]
    /\ UNCHANGED <<ump_config, uwsgi, metric_value, writer, route, server,
                   clients, held, env, tr>>

\* lines 304-307: the value and the end of the line; ok: both appends succeed
GenValue(p) ==
    /\ gen[p].pc = "value"
    /\ \E ok \in IoOutcomes(env) :
         gen' = [gen EXCEPT ![p] =
                   IF ok
                   THEN [@ EXCEPT !.ub = @ \o Num64(gen[p].value) \o Bytes(LF, 1),
                                  !.src = Append(@, gen[p].um),
                                  !.mem = Used(@, <<"ub">>),
                                  !.um = @ + 1,
                                  !.pc = "record"]
                   ELSE GenError(@)]
    /\ UNCHANGED <<ump_config, uwsgi, metric_value, metrics_lock, writer, route,
                   server, clients, held, env, tr>>

\* the values of all metrics now (none while the writer is in the middle of
\* storing one)
SnapsAtStart == IF writer.pc = "mid" THEN <<>> ELSE <<metric_value>>

\* what the history of a pass starts with: the value every metric holds now
\* (nothing for a metric the writer is in the middle of storing)
HeldAtStart ==
    [i \in 1..Len(metric_value) |->
        IF writer.pc = "mid" /\ writer.um = i THEN {} ELSE {metric_value[i]}]

(***************************************************************************)
(* uwsgi_routing_func_prometheus_metrics (the route handler, in a worker)  *)
(***************************************************************************)
STATUS_503 == <<"5","0","3"," ","S","e","r","v","i","c","e"," ","U","n","a","v","a","i","l","a","b","l","e">>
STATUS_500 == <<"5","0","0"," ","I","n","t","e","r","n","a","l"," ","S","e","r","v","e","r"," ","E","r","r","o","r">>
STATUS_200 == <<"2","0","0"," ","O","K">>
MSG_NOT_INITIALIZED == <<"M","e","t","r","i","c","s"," ","s","u","b","s","y","s","t","e","m"," ","n","o","t"," ","i","n","i","t","i","a","l","i","z","e","d","."," ","E","n","a","b","l","e"," ","w","i","t","h"," ","-","-","e","n","a","b","l","e","-","m","e","t","r","i","c","s","\n">>
MSG_FAILED == <<"F","a","i","l","e","d"," ","t","o"," ","g","e","n","e","r","a","t","e"," ","m","e","t","r","i","c","s","\n">>
CONTENT_TYPE == <<"t","e","x","t","/","p","l","a","i","n",";"," ","v","e","r","s","i","o","n","=","0",".","0",".","4",";"," ","c","h","a","r","s","e","t","=","u","t","f","-","8">>

\* one call of a host response primitive: its name, its byte and length
\* arguments, and whether the host reports success
HostCall(op, arg, len, ok) == [op |-> op, arg |-> arg, len |-> len, ok |-> ok]

RouteIdle ==
    [pc |-> "idle", calls |-> <<>>, ret |-> "none",
     generated |-> FALSE, metrics |-> <<>>, metrics_ret |-> "none",
     mem |-> MemNone]

\* lines 484-492: the calls made when metrics are not available
RouteUnavailableCalls(ok1, ok2) ==
    <<HostCall("prepare_headers", Bytes(STATUS_503, 23), 23, ok1)>> \o
    (IF ok1 THEN <<HostCall("write_body", MSG_NOT_INITIALIZED,
                            Len(MSG_NOT_INITIALIZED), ok2)>>
     ELSE <<>>)

\* lines 495-503: the calls made when the generation failed
RouteFailedCalls(ok1, ok2) ==
    <<HostCall("prepare_headers", Bytes(STATUS_500, 25), 25, ok1)>> \o
    (IF ok1 THEN <<HostCall("write_body", MSG_FAILED, Len(MSG_FAILED), ok2)>>
     ELSE <<>>)

\* line 515: the length handed to uwsgi_response_add_content_length
RouteContentLength(metrics) == Len(metrics)

\* lines 505-526: the calls made on success; the nfail-th call fails (0: none)
RouteSuccessCalls(metrics, nfail) ==
    LET all == <<HostCall("prepare_headers", Bytes(STATUS_200, 6), 6, nfail # 1),
                 HostCall("add_content_type", Bytes(CONTENT_TYPE, 40), 40, nfail # 2),
                 HostCall("add_content_length", <<>>,
                          RouteContentLength(metrics), nfail # 3),
                 HostCall("write_body", metrics, Len(metrics), nfail # 4)>>
    IN  IF nfail = 0 THEN all ELSE SubSeq(all, 1, nfail)

\* PLUGIN_README, Handler Return Values: stop the route chain, or go on to
\* the next route
UWSGI_ROUTE_BREAK == "BREAK"
UWSGI_ROUTE_NEXT == "NEXT"

\* lines 487-526: the value the handler returns after the calls it made
RouteReturn_next_on_failure(calls) ==
    IF calls[Len(calls)].ok THEN UWSGI_ROUTE_BREAK ELSE UWSGI_ROUTE_NEXT
RouteReturn(calls) == UWSGI_ROUTE_BREAK

\* line 484
RouteUnavailable_flag_only(host) == ~host.has_metrics
RouteUnavailable(host) == ~host.has_metrics \/ host.metrics = <<>>

\* lines 483-494: the handler is entered
RouteCall(w) ==
    /\ server.phase = "running"
    /\ route[w].pc = "idle"
    /\ IF RouteUnavailable(uwsgi)
       THEN /\ \E ok1 \in IoOutcomes(env), ok2 \in IoOutcomes(env) :
                 route' = [route EXCEPT ![w] =
                            [pc |-> "idle",
                             calls |-> RouteUnavailableCalls(ok1, ok2),
                             ret |-> RouteReturn(RouteUnavailableCalls(ok1, ok2)),
                             generated |-> FALSE, metrics |-> <<>>,
                             metrics_ret |-> "none", mem |-> MemNone]]
            /\ UNCHANGED <<gen, held>>
       ELSE /\ route' = [route EXCEPT ![w] =
                            [pc |-> "gen", calls |-> <<>>, ret |-> "none",
                             generated |-> TRUE,
                             metrics |-> <<>>, metrics_ret |-> "none",
                             mem |-> MemNone]]
            /\ gen' = [gen EXCEPT ![w] =
                         [GenEnter(uwsgi) EXCEPT !.snaps = SnapsAtStart]]
            /\ held' = [held EXCEPT ![w] = HeldAtStart]
    /\ UNCHANGED <<ump_config, uwsgi, metric_value, metrics_lock, writer,
                   server, clients, env, tr>>

\* lines 495-527: what the handler does with the buffers of the request:
\* nothing after a failed pass; else it reads metrics for the calls it makes
\* and destroys it before each of its returns
RouteMem(m, ret) ==
    IF ret = "NULL" THEN m
    ELSE Destroyed(Used(m, <<"ub">>), <<"ub">>)

\* lines 364-416: the same for the server's handler, which also allocates,
\* fills, writes and destroys the response buffer
ServerMem(m, ret) ==
    IF ret = "NULL" THEN m
    ELSE Destroyed(Used(Allocated(m, <<"response">>), <<"response", "ub">>),
                   <<"response", "ub">>)

\* lines 495-527: the pass has returned
RouteRespond(w) ==
    /\ route[w].pc = "gen"
    /\ gen[w].pc = "ret"
    /\ \E nfail \in (IF env.faults THEN 0..4 ELSE {0}), ok2 \in IoOutcomes(env) :
         LET calls == IF gen[w].ret = "NULL"
                      THEN RouteFailedCalls(nfail # 1, ok2)
                      ELSE RouteSuccessCalls(gen[w].ub, nfail)
         IN  route' = [route EXCEPT ![w] =
                         [@ EXCEPT !.pc = "idle",
                                   !.calls = calls,
                                   !.ret = RouteReturn(calls),
                                   !.metrics = gen[w].ub,
                                   !.metrics_ret = gen[w].ret,
                                   !.mem = RouteMem(gen[w].mem, gen[w].ret)]]
    /\ gen' = [gen EXCEPT ![w] = GenIdle]
    /\ UNCHANGED <<ump_config, uwsgi, metric_value, metrics_lock, writer,
                   server, clients, held, env, tr>>


(***************************************************************************)
(* Plugin initialization and the dedicated server (master process).        *)
(***************************************************************************)
\* the descriptor bind_to_tcp / bind_to_unix returns on success
BoundFd == 3

Clients == 1..MaxClients

\* lines 542-552 (on_load) followed by the option table, lines 42-49
metrics_prometheus_init(opts) ==
    [prefix_set |-> opts.prefix_set, prefix |-> opts.prefix,
     no_workers |-> opts.no_workers,
     include_help |-> opts.include_help, include_type |-> opts.include_type,
     server_address |-> opts.server_address, server_fd |-> -1]

\* lines 447-475; bind_ok: the outcome of bind_to_tcp / bind_to_unix
prometheus_server_init(cfg, bind_ok) ==
    IF ~cfg.server_address THEN cfg
    ELSE [cfg EXCEPT !.server_fd = IF bind_ok THEN BoundFd ELSE -1]

\* lines 558-567
metrics_prometheus_post_init_any_mode(cfg, host, bind_ok) ==
    IF cfg.server_address THEN prometheus_server_init(cfg, bind_ok) ELSE cfg
metrics_prometheus_post_init(cfg, host, bind_ok) ==
    IF cfg.server_address
    THEN IF host.master_process THEN prometheus_server_init(cfg, bind_ok)
         ELSE cfg
    ELSE cfg

ServerInit ==
    [phase |-> "loaded", pc |-> "idle", client_fd |-> 0, backlog |-> <<>>,
     ticks |-> 0, ops |-> <<>>, qlen |-> 0, accept_failed |-> FALSE]

ClientNew ==
    [st |-> "new", sent |-> FALSE, request |-> <<>>, hup |-> FALSE, rx |-> <<>>,
     deadline |-> 0, acc_tick |-> 0, closes |-> 0,
     metrics |-> <<>>, metrics_ret |-> "none", wrote |-> <<>>,
     mem |-> MemNone]

\* the post_init hook, run once after startup
PostInit ==
    /\ server.phase = "loaded"
    /\ \E bind_ok \in BOOLEAN :
         ump_config' = metrics_prometheus_post_init(ump_config, uwsgi, bind_ok)
    /\ server' = [server EXCEPT !.phase = "running"]
    /\ UNCHANGED <<uwsgi, metric_value, metrics_lock, writer, gen, route,
                   clients, held, env, tr>>

\* a peer connects: the connection waits in the listen queue
Connect(c) ==
    /\ ump_config.server_fd >= 0
    /\ clients[c].st = "new"
    /\ server' = [server EXCEPT !.backlog = Append(@, c)]
    /\ clients' = [clients EXCEPT ![c].st = "pending",
                                  ![c].deadline = server.ticks + Len(server.backlog) + 1]
    /\ UNCHANGED <<ump_config, uwsgi, metric_value, metrics_lock, writer, gen,
                   route, held, env, tr>>

\* what peers send: requests of several methods and paths, and bytes that
\* are no HTTP request
REQUEST_GET == <<"G","E","T"," ","/","m","e","t","r","i","c","s"," ","H","T","T","P","/","1",".","1","\r","\n","\r","\n">>
REQUEST_POST == <<"P","O","S","T"," ","/","x"," ","H","T","T","P","/","1",".","0","\r","\n","\r","\n">>
REQUEST_NO_HTTP == <<"\r">>
Requests == {REQUEST_GET, REQUEST_POST, REQUEST_NO_HTTP}

\* the requests of this run's peers: the runs in which appends and I/O fail
\* have every peer send the first of them
PeerRequests(e) ==
    IF e.faults THEN {REQUEST_GET} ELSE Requests

\* a connected peer sends its request bytes
ClientSend(c) ==
    /\ clients[c].st \in {"pending", "accepted"}
    /\ ~clients[c].sent /\ ~clients[c].hup
    /\ \E request \in PeerRequests(env) :
         clients' = [clients EXCEPT ![c].sent = TRUE, ![c].request = request]
    /\ UNCHANGED <<ump_config, uwsgi, metric_value, metrics_lock, writer, gen,
                   route, server, held, env, tr>>

\* a connected peer closes its end
ClientClose(c) ==
    /\ clients[c].st \in {"pending", "accepted"}
    /\ ~clients[c].hup
    /\ clients' = [clients EXCEPT ![c].hup = TRUE]
    /\ UNCHANGED <<ump_config, uwsgi, metric_value, metrics_lock, writer, gen,
                   route, server, held, env, tr>>

\* line 435: select with a zero timeout on the listening socket
select_ready(backlog) == Len(backlog) > 0

\* line 342: the connections accept() takes from the listen queue
accept_takes_all(backlog) == Len(backlog)
accept_takes(backlog) == 1

\* lines 337-352: accept() and fcntl(); accept fails when the environment
\* makes it fail, and with EAGAIN when no connection is pending
prometheus_server_handle_request(srv, accept_ok) ==
    IF ~accept_ok \/ Len(srv.backlog) = 0
    THEN [srv EXCEPT !.ops = @ \o <<"accept">>, !.accept_failed = TRUE]
    ELSE [srv EXCEPT !.ops = @ \o <<"accept", "fcntl">>,
                     !.client_fd = Head(srv.backlog),
                     !.backlog = SubSeq(@, accept_takes(@) + 1, Len(@)),
                     !.pc = "read"]

\* lines 424-439: one master cycle, up to the blocking read of the request
prometheus_master_cycle(srv, cfg, accept_ok) ==
    IF cfg.server_fd < 0
    THEN [srv EXCEPT !.ticks = @ + 1, !.ops = <<>>]
    ELSE LET s1 == [srv EXCEPT !.ticks = @ + 1, !.ops = <<"select">>,
                               !.qlen = Len(srv.backlog)]
         IN  IF select_ready(srv.backlog)
             THEN prometheus_server_handle_request(s1, accept_ok)
             ELSE s1

MasterCycle ==
    /\ server.phase = "running"
    /\ uwsgi.master_process
    /\ server.pc = "idle"
    /\ server.ticks < MaxTicks
    /\ \E accept_ok \in IoOutcomes(env) :
         /\ server' = prometheus_master_cycle(server, ump_config, accept_ok)
         /\ clients' = IF server'.pc = "read"
                       THEN [clients EXCEPT
                               ![server'.client_fd].st = "accepted",
                               ![server'.client_fd].acc_tick = server'.ticks]
                       ELSE clients
    /\ UNCHANGED <<ump_config, uwsgi, metric_value, metrics_lock, writer, gen,
                   route, held, env, tr>>

\* line 356: what the blocking read can return for this peer; nothing while
\* the peer has neither sent nor closed (the read does not return)
ReadResults_times_out(cl) ==
    IF cl.sent THEN {Len(cl.request)} ELSE {0, -1}
ReadResults(cl) ==
    IF cl.sent THEN {Len(cl.request)} ELSE IF cl.hup THEN {0, -1} ELSE {}

\* lines 357-360: the test on what was read; request_buf is not looked at
read_rejects_unless_get(request_buf, rlen) ==
    rlen <= 0 \/ request_buf # REQUEST_GET
read_rejects(request_buf, rlen) == rlen <= 0

\* close(client_fd), lines 358, 374 and 416
close_leaks(cl) == cl
close(cl) == [cl EXCEPT !.st = "closed", !.closes = @ + 1]

\* lines 356-363
ServerRead ==
    /\ server.pc = "read"
    /\ \E rlen \in ReadResults(clients[server.client_fd]) :
         IF read_rejects(clients[server.client_fd].request, rlen)
         THEN /\ server' = [server EXCEPT !.ops = @ \o <<"read", "close">>,
                                          !.pc = "idle", !.client_fd = 0]
              /\ clients' = [clients EXCEPT ![server.client_fd] = close(@)]
              /\ UNCHANGED <<gen, held>>
         ELSE /\ server' = [server EXCEPT !.ops = @ \o <<"read">>,
                                          !.pc = "gen"]
              /\ gen' = [gen EXCEPT ![Master] =
                           [GenEnter(uwsgi) EXCEPT !.snaps = SnapsAtStart]]
              /\ held' = [held EXCEPT ![Master] = HeldAtStart]
              /\ UNCHANGED clients
    /\ UNCHANGED <<ump_config, uwsgi, metric_value, metrics_lock, writer,
                   route, env, tr>>

\* lines 365-370: the fixed response of a failed generation
RESPONSE_500 == <<"H","T","T","P","/","1",".","0"," ","5","0","0"," ","I","n","t","e","r","n","a","l"," ","S","e","r","v","e","r"," ","E","r","r","o","r","\r","\n","C","o","n","t","e","n","t","-","T","y","p","e",":"," ","t","e","x","t","/","p","l","a","i","n","\r","\n","C","o","n","t","e","n","t","-","L","e","n","g","t","h",":"," ","2","8","\r","\n","\r","\n","F","a","i","l","e","d"," ","t","o"," ","g","e","n","e","r","a","t","e"," ","m","e","t","r","i","c","s","\n">>
STATUS_LINE_200_http11 == <<"H","T","T","P","/","1",".","1"," ","2","0","0"," ","O","K","\r","\n">>
STATUS_LINE_200 == <<"H","T","T","P","/","1",".","0"," ","2","0","0"," ","O","K","\r","\n">>
HEADER_CONTENT_TYPE == <<"C","o","n","t","e","n","t","-","T","y","p","e",":"," ","t","e","x","t","/","p","l","a","i","n",";"," ","v","e","r","s","i","o","n","=","0",".","0",".","4",";"," ","c","h","a","r","s","e","t","=","u","t","f","-","8","\r","\n">>
HEADER_CONTENT_LENGTH == <<"C","o","n","t","e","n","t","-","L","e","n","g","t","h",":"," ">>
HEADER_CONNECTION == <<"C","o","n","n","e","c","t","i","o","n",":"," ","c","l","o","s","e","\r","\n">>

\* lines 379-401: the response buffer (a fresh page, which these appends
\* never outgrow)
ResponseHeader_stale_length(metrics) ==
    Bytes(STATUS_LINE_200, 17) \o Bytes(HEADER_CONTENT_TYPE, 56)
      \o Bytes(HEADER_CONTENT_LENGTH, 16) \o Num64(0) \o Bytes(CRLF, 2)
      \o Bytes(HEADER_CONNECTION, 19) \o Bytes(CRLF, 2)
ResponseHeader(metrics) ==
    Bytes(STATUS_LINE_200, 17) \o Bytes(HEADER_CONTENT_TYPE, 56)
      \o Bytes(HEADER_CONTENT_LENGTH, 16) \o Num64(Len(metrics)) \o Bytes(CRLF, 2)
      \o Bytes(HEADER_CONNECTION, 19) \o Bytes(CRLF, 2)

\* lines 364-417: the pass has returned; ok1, ok2: the outcome of the writes
ServerRespond ==
    /\ server.pc = "gen"
    /\ gen[Master].pc = "ret"
    /\ \E ok1 \in IoOutcomes(env), ok2 \in IoOutcomes(env) :
         LET c == server.client_fd
             failed == gen[Master].ret = "NULL"
             sent == IF failed
                     THEN (IF ok1 THEN RESPONSE_500 ELSE <<>>)
                     ELSE (IF ok1 THEN ResponseHeader(gen[Master].ub) ELSE <<>>)
                          \o (IF ok2 THEN gen[Master].ub ELSE <<>>)
         IN  /\ clients' = [clients EXCEPT ![c] =
                              close([@ EXCEPT
                                       !.rx = sent,
                                       !.metrics = gen[Master].ub,
                                       !.metrics_ret = gen[Master].ret,
                                       !.mem = ServerMem(gen[Master].mem,
                                                         gen[Master].ret),
                                       !.wrote = IF failed THEN <<ok1>>
                                                 ELSE <<ok1, ok2>>])]
             /\ server' = [server EXCEPT
                             !.ops = @ \o (IF failed THEN <<"write", "close">>
                                           ELSE <<"write", "write", "close">>),
                             !.pc = "idle", !.client_fd = 0]
    /\ gen' = [gen EXCEPT ![Master] = GenIdle]
    /\ UNCHANGED <<ump_config, uwsgi, metric_value, metrics_lock, writer,
                   route, held, env, tr>>


(***************************************************************************)
(* The host's metric writer: *um->value += 1 under the write lock.  The    *)
(* int64 is stored as two halves, low half first; HalfRadix scales the     *)
(* half word down.                                                         *)
(***************************************************************************)
HalfRadix == 16

WriterIdle == [pc |-> "idle", um |-> 0, new |-> 0, count |-> 0]

\* the value in memory once the low half of new is stored over old
TornValue(old, new) == (old \div HalfRadix) * HalfRadix + (new % HalfRadix)

WriterLock(i) ==
    /\ writer.pc = "idle"
    /\ writer.count < MaxWrites
    /\ i \in 1..Len(uwsgi.metrics)
    /\ uwsgi.metrics[i].has_value
    /\ wlock_ready(metrics_lock)
    /\ metrics_lock' = [metrics_lock EXCEPT !.writer = TRUE]
    /\ writer' = [writer EXCEPT !.pc = "locked", !.um = i,
                                !.new = (metric_value[i] + 1) % (HalfRadix * HalfRadix)]
    /\ UNCHANGED <<ump_config, uwsgi, metric_value, gen, route, server,
                   clients, held, env, tr>>

WriterStoreLow ==
    /\ writer.pc = "locked"
    /\ metric_value' = [metric_value EXCEPT
                          ![writer.um] = TornValue(@, writer.new)]
    /\ writer' = [writer EXCEPT !.pc = "mid"]
    /\ UNCHANGED <<ump_config, uwsgi, metrics_lock, gen, route, server,
                   clients, held, env, tr>>

WriterStoreHigh ==
    /\ writer.pc = "mid"
    /\ metric_value' = [metric_value EXCEPT ![writer.um] = writer.new]
    /\ writer' = [writer EXCEPT !.pc = "stored"]
    /\ held' = [p \in Procs |->
                  IF gen[p].pc \in {"idle", "ret"} THEN held[p]
                  ELSE [held[p] EXCEPT ![writer.um] = @ \cup {writer.new}]]
    /\ gen' = [p \in Procs |->
                 IF gen[p].pc \in {"idle", "ret"} THEN gen[p]
                 ELSE [gen[p] EXCEPT !.snaps = Append(@, metric_value')]]
    /\ UNCHANGED <<ump_config, uwsgi, metrics_lock, route, server,
                   clients, env, tr>>

WriterUnlock ==
    /\ writer.pc = "stored"
    /\ metrics_lock' = [metrics_lock EXCEPT !.writer = FALSE]
    /\ writer' = [writer EXCEPT !.pc = "idle", !.count = @ + 1]
    /\ UNCHANGED <<ump_config, uwsgi, metric_value, gen, route, server,
                   clients, held, env, tr>>

(***************************************************************************)
(* Inputs.                                                                 *)
(***************************************************************************)
\* the options as the command line leaves them
Options(prefix_set, prefix, no_workers, include_help, include_type, server_address) ==
    [prefix_set |-> prefix_set, prefix |-> prefix, no_workers |-> no_workers,
     include_help |-> include_help, include_type |-> include_type,
     server_address |-> server_address]

DefaultOptions(server_address) ==
    Options(FALSE, <<>>, FALSE, TRUE, TRUE, server_address)

Host(has_metrics, metrics, master_process) ==
    [has_metrics |-> has_metrics, metrics |-> metrics,
     master_process |-> master_process]

Metric(name, type, has_value, value) ==
    [name |-> name, type |-> type, has_value |-> has_value, value |-> value]

\* the registry's records (name, type, value pointer) of a list of metrics
RegistryOf(ms) ==
    [i \in 1..Len(ms) |->
       [name |-> ms[i].name, type |-> ms[i].type, has_value |-> ms[i].has_value]]
ValuesOf(ms) == [i \in 1..Len(ms) |-> ms[i].value]

\* metric names as the host validates them: letters, digits, '.', '-', '_'
RecordPool ==
    { Metric(<<"w","o","r","k","e","r",".","1",".","r">>, "COUNTER", TRUE, 7),
      Metric(<<"w","o","r","k","e","r",".","2",".","r">>, "COUNTER", TRUE, 120),
      Metric(<<"a",".","t","o","t","a","l">>, "GAUGE", TRUE, -3),
      Metric(<<"a">>, "COUNTER", TRUE, 0),
      Metric(<<"b">>, "ABSOLUTE", FALSE, 0),
      Metric(<<"1">>, "ALIAS", TRUE, 5) }

SeqsUpTo(S, n) == UNION {[1..k -> S] : k \in 0..n}

\* the host registers every metric name once
Registries(pool, n) ==
    {ms \in SeqsUpTo(pool, n) :
        \A i, j \in 1..Len(ms) : ms[i].name = ms[j].name => i = j}

Env(faults) == [faults |-> faults]

TrIdle == [pc |-> "idle", name |-> <<>>, prefix |-> <<>>, allow |-> <<>>,
           rc |-> 0, name_buf |-> <<>>, labels_buf |-> <<>>]

InitWith(opts, host, values, e) ==
    /\ ump_config = metrics_prometheus_init(opts)
    /\ uwsgi = host
    /\ metric_value = values
    /\ metrics_lock = LockFree
    /\ writer = WriterIdle
    /\ gen = [p \in Procs |-> GenIdle]
    /\ route = [w \in Workers |-> RouteIdle]
    /\ server = ServerInit
    /\ clients = [c \in Clients |-> ClientNew]
    /\ held = [p \in Procs |-> <<>>]
    /\ env = e
    /\ tr = TrIdle

GenSteps(p) ==
    \/ GenRecord(p)
    \/ GenReturn(p)
    \/ GenRLock(p)
    \/ GenReadValue(p)
    \/ GenRWUnlock(p)
    \/ GenValue(p)

(***************************************************************************)
(* SpecRoute: one worker serving routed requests over every registry of    *)
(* at most MaxRecords records of the pool, under every option setting.     *)
(***************************************************************************)
RoutePrefixes == { <<FALSE, <<>> >>, <<TRUE, <<>> >> }

InitRoute ==
    \E px \in RoutePrefixes, nw \in BOOLEAN, ih \in BOOLEAN, it \in BOOLEAN,
       hm \in BOOLEAN, ms \in Registries(RecordPool, MaxRecords) :
        /\ (~hm => ms = <<>>)
        /\ InitWith(Options(px[1], px[2], nw, ih, it, FALSE),
                    Host(hm, RegistryOf(ms), FALSE), ValuesOf(ms), Env(TRUE))

NextRoute ==
    \/ PostInit
    \/ RouteCall("w1")
    \/ GenSteps("w1")
    \/ RouteRespond("w1")

SpecRoute == InitRoute /\ [][NextRoute]_vars


(***************************************************************************)
(* SpecTranslate: prometheus_format_metric_name on every dotted name of    *)
(* at most MaxSegs segments, under several prefixes and append outcomes.   *)
(***************************************************************************)
NameSegs == { <<>>, <<"a">>, <<"1">>, <<"2","0">>, <<"b","-">> }

RECURSIVE JoinDots(_)
JoinDots(segs) ==
    IF Len(segs) = 0 THEN <<>>
    ELSE IF Len(segs) = 1 THEN segs[1]
    ELSE segs[1] \o <<".">> \o JoinDots(Tail(segs))

NAME_WORKER_1_REQUESTS == <<"w","o","r","k","e","r",".","1",".","r","e","q","u","e","s","t","s">>
NAME_CORE_1_2_REQUESTS == <<"c","o","r","e",".","1",".","2",".","r","e","q","u","e","s","t","s">>

TranslateNames ==
    {JoinDots(segs) : segs \in SeqsUpTo(NameSegs, MaxSegs)}
      \cup {NAME_WORKER_1_REQUESTS, NAME_CORE_1_2_REQUESTS}

TranslatePrefixes == {DEFAULT_PREFIX, <<>>, <<"p","-">>}

InitTranslate ==
    \E name \in TranslateNames, prefix \in TranslatePrefixes :
        /\ ump_config = metrics_prometheus_init(DefaultOptions(FALSE))
        /\ uwsgi = Host(FALSE, <<>>, FALSE)
        /\ metric_value = <<>>
        /\ metrics_lock = LockFree
        /\ writer = WriterIdle
        /\ gen = [p \in Procs |-> GenIdle]
        /\ route = [w \in Workers |-> RouteIdle]
        /\ server = ServerInit
        /\ clients = [c \in Clients |-> ClientNew]
        /\ held = [p \in Procs |-> <<>>]
        /\ env = Env(TRUE)
        /\ tr = [TrIdle EXCEPT !.pc = "call", !.name = name, !.prefix = prefix]

\* one call of prometheus_format_metric_name
TranslateName ==
    /\ tr.pc = "call"
    /\ \E allow \in FmtAllows :
         LET f == prometheus_format_metric_name(tr.name, tr.prefix, allow)
         IN  tr' = [tr EXCEPT !.pc = "done", !.allow = allow, !.rc = f.rc,
                              !.name_buf = f.name_buf,
                              !.labels_buf = f.labels_buf]
    /\ UNCHANGED <<ump_config, uwsgi, metric_value, metrics_lock, writer, gen,
                   route, server, clients, held, env>>

NextTranslate == TranslateName

SpecTranslate == InitTranslate /\ [][NextTranslate]_vars

\* the bytes a segment may have beyond the size of the segment buffer
MaxOver == 1

\* n times the character c
Run(c, n) == [k \in 1..n |-> c]

\* segments about as long as the segment buffer (line 131): digits, letters,
\* characters to sanitize, digits with a letter at the end, and short ones
LongSegs ==
    {Run(c, n) : c \in {"7", "x", "-"},
                 n \in SEGMENT_SIZE - 2..SEGMENT_SIZE + MaxOver}
      \cup {Run("7", n) \o <<"x">> : n \in SEGMENT_SIZE - 2..SEGMENT_SIZE}
      \cup {<<"a">>, <<"1">>}

LongNames ==
    {s : s \in LongSegs} \cup {s \o <<".">> \o t : s \in LongSegs, t \in LongSegs}

InitCap ==
    \E name \in LongNames, prefix \in TranslatePrefixes :
        /\ ump_config = metrics_prometheus_init(DefaultOptions(FALSE))
        /\ uwsgi = Host(FALSE, <<>>, FALSE)
        /\ metric_value = <<>>
        /\ metrics_lock = LockFree
        /\ writer = WriterIdle
        /\ gen = [p \in Procs |-> GenIdle]
        /\ route = [w \in Workers |-> RouteIdle]
        /\ server = ServerInit
        /\ clients = [c \in Clients |-> ClientNew]
        /\ held = [p \in Procs |-> <<>>]
        /\ env = Env(TRUE)
        /\ tr = [TrIdle EXCEPT !.pc = "call", !.name = name, !.prefix = prefix]

SpecCap == InitCap /\ [][NextTranslate]_vars

(***************************************************************************)
(* SpecServer: the master process with the dedicated server and its peers. *)
(***************************************************************************)
SystemRegistry ==
    << Metric(<<"w","o","r","k","e","r",".","1",".","r">>, "COUNTER", TRUE, 7) >>

\* metrics disabled, enabled with no registry, enabled with the registry
InitServer ==
    \E addr \in BOOLEAN, master \in BOOLEAN, hm \in BOOLEAN,
       ms \in {<<>>, SystemRegistry} :
        /\ (~hm => ms = <<>>)
        /\ InitWith(DefaultOptions(addr), Host(hm, RegistryOf(ms), master),
                    ValuesOf(ms), Env(TRUE))

NextServer ==
    \/ PostInit
    \/ \E c \in Clients : Connect(c) \/ ClientSend(c) \/ ClientClose(c)
    \/ MasterCycle
    \/ ServerRead
    \/ GenSteps(Master)
    \/ ServerRespond

SpecServer == InitServer /\ [][NextServer]_vars

\* the master process runs on: a read that can return returns, a pass that
\* can take its next step takes it, and the response is written
\* GenRecord(p) can take a step
GenRecordReady(p) == gen[p].pc = "record" /\ gen[p].um <= Len(uwsgi.metrics)

\* weak fairness of every step of the master's handler; for GenRecord it is
\* written out, with GenRecordReady for the enabling condition
FairServer ==
    /\ WF_vars(ServerRead)
    /\ WF_vars(ServerRespond)
    /\ WF_vars(GenReturn(Master))
    /\ WF_vars(GenRLock(Master))
    /\ WF_vars(GenReadValue(Master))
    /\ WF_vars(GenRWUnlock(Master))
    /\ WF_vars(GenValue(Master))
    /\ ([]<>(~GenRecordReady(Master)) \/ []<><<GenRecord(Master)>>_vars)

SpecServerFair == SpecServer /\ FairServer

(***************************************************************************)
(* Spec: both adapters, the dedicated server with one peer and one worker  *)
(* serving routed requests.                                                *)
(***************************************************************************)
Init == InitServer

Next ==
    \/ PostInit
    \/ Connect(1)
    \/ ClientSend(1)
    \/ ClientClose(1)
    \/ MasterCycle
    \/ ServerRead
    \/ GenSteps(Master)
    \/ ServerRespond
    \/ RouteCall("w1")
    \/ GenSteps("w1")
    \/ RouteRespond("w1")

Spec == Init /\ [][Next]_vars

(***************************************************************************)
(* SpecLock: two workers serving routed requests while the host's writer   *)
(* updates the metrics; no append or I/O failure in these runs.            *)
(***************************************************************************)
LockRegistry ==
    << Metric(<<"a">>, "GAUGE", TRUE, HalfRadix - 1),
       Metric(<<"b">>, "GAUGE", TRUE, HalfRadix - 1) >>

InitLock ==
    InitWith(DefaultOptions(FALSE),
             Host(TRUE, RegistryOf(LockRegistry), FALSE), ValuesOf(LockRegistry),
             Env(FALSE))

NextLock ==
    \/ PostInit
    \/ \E w \in Workers : RouteCall(w) \/ GenSteps(w) \/ RouteRespond(w)
    \/ \E i \in 1..Len(uwsgi.metrics) : WriterLock(i)
    \/ WriterStoreLow
    \/ WriterStoreHigh
    \/ WriterUnlock

SpecLock == InitLock /\ [][NextLock]_vars

\* two records of different type behind one flat name
SharedNameRegistry ==
    << Metric(<<"a",".","t","o","t","a","l">>, "GAUGE", TRUE, -3),
       Metric(<<"a">>, "COUNTER", TRUE, 0) >>

(***************************************************************************)
(* SpecReaders: two workers serving routed requests at the same time,      *)
(* with appends and host calls that can fail; nothing writes the metrics.  *)
(***************************************************************************)
InitReaders ==
    InitWith(DefaultOptions(FALSE),
             Host(TRUE, RegistryOf(SharedNameRegistry), FALSE),
             ValuesOf(SharedNameRegistry), Env(TRUE))

NextReaders ==
    \/ PostInit
    \/ \E w \in Workers : RouteCall(w) \/ GenSteps(w) \/ RouteRespond(w)

SpecReaders == InitReaders /\ [][NextReaders]_vars

(***************************************************************************)
(* SpecPeers: the dedicated server, bound, with peers that send different  *)
(* requests; the registry does not change and no append or I/O fails.      *)
(***************************************************************************)
PeerRegistries == {SystemRegistry, SharedNameRegistry}

InitPeers ==
    \E ms \in PeerRegistries :
        InitWith(DefaultOptions(TRUE), Host(TRUE, RegistryOf(ms), TRUE),
                 ValuesOf(ms), Env(FALSE))

SpecPeers == InitPeers /\ [][NextServer]_vars

(***************************************************************************)
(* SpecTyped: one worker serving routed requests over registries with      *)
(* records of every type, under the four settings of include_help and      *)
(* include_type; no append or I/O fails.                                   *)
(***************************************************************************)
TypedPool ==
    { Metric(<<"r">>, "COUNTER", TRUE, 7),
      Metric(<<"g">>, "GAUGE", TRUE, -3),
      Metric(<<"g",".","2">>, "GAUGE", TRUE, 9),
      Metric(<<"a">>, "ABSOLUTE", TRUE, 5),
      Metric(<<"o">>, "ALIAS", TRUE, 2),
      Metric(<<"w","o","r","k","e","r",".","1",".","r">>, "COUNTER", TRUE, 120) }

InitTyped ==
    \E ih \in BOOLEAN, it \in BOOLEAN, ms \in Registries(TypedPool, MaxRecords) :
        InitWith(Options(FALSE, <<>>, FALSE, ih, it, FALSE),
                 Host(TRUE, RegistryOf(ms), FALSE), ValuesOf(ms), Env(FALSE))

SpecTyped == InitTyped /\ [][NextRoute]_vars

\* registries with records the pass skips (lines 223-242): no name, no value
\* pointer, or a translation that fails on an append
SkipPool ==
    { Metric(<<>>, "GAUGE", TRUE, 4),
      Metric(<<"b">>, "ABSOLUTE", FALSE, 0),
      Metric(<<"a",".","t","o","t","a","l">>, "GAUGE", TRUE, -3),
      Metric(<<"a">>, "COUNTER", TRUE, 0),
      Metric(<<"w","o","r","k","e","r",".","1",".","r">>, "COUNTER", TRUE, 7) }

InitSkips ==
    \E nw \in BOOLEAN, ih \in BOOLEAN, it \in BOOLEAN,
       ms \in Registries(SkipPool, MaxRecords) :
        InitWith(Options(FALSE, <<>>, nw, ih, it, FALSE),
                 Host(TRUE, RegistryOf(ms), FALSE), ValuesOf(ms), Env(TRUE))

SpecSkips == InitSkips /\ [][NextRoute]_vars

(***************************************************************************)
(* Reading names and exposition text back, for the properties below.       *)
(***************************************************************************)
\* the pieces of s between occurrences of ch
SplitOn(s, ch) ==
    LET seps == {k \in 1..Len(s) : s[k] = ch}
        \* the position of the i-th separator; 0 and Len(s) + 1 at the ends
        sep(i) == IF i = 0 THEN 0
                  ELSE IF i > Cardinality(seps) THEN Len(s) + 1
                  ELSE CHOOSE k \in seps : Cardinality({h \in seps : h < k}) = i - 1
    IN  [i \in 1..Cardinality(seps) + 1 |-> SubSeq(s, sep(i - 1) + 1, sep(i) - 1)]

AllDigits(seg) == Len(seg) > 0 /\ \A k \in 1..Len(seg) : seg[k] \in Digits
NumericSegments(name) == SelectSeq(SplitOn(name, "."), AllDigits)

RECURSIVE JoinWith(_, _)
JoinWith(pieces, sep) ==
    IF Len(pieces) = 0 THEN <<>>
    ELSE IF Len(pieces) = 1 THEN pieces[1]
    ELSE pieces[1] \o sep \o JoinWith(Tail(pieces), sep)

KEY_WORKER == <<"w","o","r","k","e","r">>
KEY_CORE == <<"c","o","r","e">>
KEY_THREAD == <<"t","h","r","e","a","d">>
KEY_ID == <<"i","d">>
LabelKeys == <<KEY_WORKER, KEY_CORE, KEY_THREAD, KEY_ID>>

\* key="value" pairs for the first four numeric segments, in order
ExpectedLabels(name) ==
    LET nums == NumericSegments(name)
        n == IF Len(nums) < 4 THEN Len(nums) ELSE 4
    IN  JoinWith([k \in 1..n |-> LabelKeys[k] \o <<"=", "\"">> \o nums[k] \o <<"\"">>],
                 <<",">>)

CountOf(s, ch) == Cardinality({k \in 1..Len(s) : s[k] = ch})

\* the name with every numeric segment after the fourth replaced by 9
BeyondFourthRewritten(name) ==
    LET segs == SplitOn(name, ".")
        rank(k) == Len(SelectSeq(SubSeq(segs, 1, k), AllDigits))
    IN  JoinWith([k \in 1..Len(segs) |->
                    IF AllDigits(segs[k]) /\ rank(k) > 4 THEN <<"9">> ELSE segs[k]],
                 <<".">>)

FLAT_WORKER_REQUESTS == <<"u","w","s","g","i","_","w","o","r","k","e","r","_","r","e","q","u","e","s","t","s">>
FLAT_CORE_REQUESTS == <<"u","w","s","g","i","_","c","o","r","e","_","r","e","q","u","e","s","t","s">>
LABELS_WORKER_1 == <<"w","o","r","k","e","r","=","\"","1","\"">>
LABELS_WORKER_1_CORE_2 == <<"w","o","r","k","e","r","=","\"","1","\"",",","c","o","r","e","=","\"","2","\"">>

TranslateDone == tr.pc = "done" /\ tr.rc = 0

\* C1: with the default prefix, worker.1.requests translates to the flat name
\* uwsgi_worker_requests with labels worker="1", and core.1.2.requests to
\* uwsgi_core_requests with labels worker="1",core="2".
C1_DocumentedTranslations ==
    (TranslateDone /\ tr.prefix = DEFAULT_PREFIX) =>
        /\ tr.name = NAME_WORKER_1_REQUESTS =>
             tr.name_buf = FLAT_WORKER_REQUESTS /\ tr.labels_buf = LABELS_WORKER_1
        /\ tr.name = NAME_CORE_1_2_REQUESTS =>
             tr.name_buf = FLAT_CORE_REQUESTS /\ tr.labels_buf = LABELS_WORKER_1_CORE_2

C5_FlatNameCharset ==
    TranslateDone =>
        /\ Len(tr.name_buf) > 0
        /\ \A k \in 1..Len(tr.name_buf) : tr.name_buf[k] \in Letters \cup Digits \cup {"_"}

\* the complete lines of an exposition text (each ends with a line feed)
Lines(text) ==
    LET pieces == SplitOn(text, "\n")
    IN  SubSeq(pieces, 1, Len(pieces) - 1)

StartsWith(s, pre) == Len(s) >= Len(pre) /\ SubSeq(s, 1, Len(pre)) = pre

\* s up to, not including, its first element in stops
TakeUntil(s, stops) ==
    LET hits == {k \in 1..Len(s) : s[k] \in stops}
    IN  IF hits = {} THEN s
        ELSE SubSeq(s, 1, (CHOOSE k \in hits : \A h \in hits : k <= h) - 1)

HELP_MARK == <<"#"," ","H","E","L","P"," ">>
TYPE_MARK == <<"#"," ","T","Y","P","E"," ">>

LineKind(l) ==
    IF StartsWith(l, HELP_MARK) THEN "help"
    ELSE IF StartsWith(l, TYPE_MARK) THEN "type"
    ELSE "sample"
IsSample(l) == LineKind(l) = "sample"

\* the flat name a line is about
LineName(l) ==
    IF IsSample(l) THEN TakeUntil(l, {"{", " "})
    ELSE TakeUntil(SubSeq(l, 8, Len(l)), {" "})

\* the positions of the lines of one kind about one flat name
LinesAbout(ls, kind, n) ==
    {j \in 1..Len(ls) : LineKind(ls[j]) = kind /\ LineName(ls[j]) = n}

PassReturned(p) == gen[p].pc = "ret" /\ gen[p].ret = "ub"

\* C2: in the output of a pass with HELP and TYPE enabled, every flat name of
\* a metric line has exactly one HELP line and exactly one TYPE line, HELP
\* before TYPE and both before the first metric line of that flat name.
C2_HelpTypeOnce ==
    \A p \in Procs :
        (PassReturned(p) /\ ump_config.include_help /\ ump_config.include_type) =>
            LET ls == Lines(gen[p].ub)
            IN  \A j \in 1..Len(ls) :
                    IsSample(ls[j]) =>
                        LET n == LineName(ls[j])
                            helps == LinesAbout(ls, "help", n)
                            types == LinesAbout(ls, "type", n)
                        IN  /\ Cardinality(helps) = 1
                            /\ Cardinality(types) = 1
                            /\ \A h \in helps, t \in types : h < t /\ t < j

\* three metric lines, the first and the third sharing a flat name that the
\* second does not have
C2_Witness ==
    /\ PassReturned("w1") /\ ump_config.include_help /\ ump_config.include_type
    /\ LET samples == SelectSeq(Lines(gen["w1"].ub), IsSample)
       IN  /\ Len(samples) = 3
           /\ LineName(samples[1]) = LineName(samples[3])
           /\ LineName(samples[1]) # LineName(samples[2])

\* the flat name a record is to be exposed under
ExposedName(rec) ==
    prometheus_format_metric_name(rec.name, ConfigPrefix(ump_config), <<>>).name_buf
      \o (IF rec.type = "COUNTER" THEN <<"_","t","o","t","a","l">> ELSE <<>>)

\* C4: the metric line of an emitted record carries the translated name, with
\* _total appended exactly when the record is a Counter, and the HELP and TYPE
\* lines written for the record carry that same name.
C4_TotalSuffix ==
    \A p \in Procs :
        PassReturned(p) =>
            LET ls == Lines(gen[p].ub)
                at == {j \in 1..Len(ls) : IsSample(ls[j])}
                samples == SelectSeq(ls, IsSample)
            IN  /\ Len(samples) = Len(gen[p].src)
                /\ \A k \in 1..Len(samples) :
                     LineName(samples[k]) = ExposedName(uwsgi.metrics[gen[p].src[k]])
                /\ \A j \in 1..Len(ls) :
                     ~IsSample(ls[j]) =>
                        \E m \in at :
                            /\ m > j
                            /\ \A q \in j + 1..m - 1 : q \notin at
                            /\ LineName(ls[j]) = LineName(ls[m])

C4_Witness ==
    /\ PassReturned("w1") /\ ump_config.include_help /\ ump_config.include_type
    /\ \E k1, k2 \in 1..Len(gen["w1"].src) :
         /\ uwsgi.metrics[gen["w1"].src[k1]].type = "COUNTER"
         /\ uwsgi.metrics[gen["w1"].src[k2]].type = "GAUGE"
    /\ Cardinality(LinesAbout(Lines(gen["w1"].ub), "help",
                              <<"u","w","s","g","i","_","a","_","t","o","t","a","l">>)) = 1

BODY_NOT_INITIALIZED == <<"M","e","t","r","i","c","s"," ","s","u","b","s","y","s","t","e","m"," ","n","o","t"," ","i","n","i","t","i","a","l","i","z","e","d","."," ","E","n","a","b","l","e"," ","w","i","t","h"," ","-","-","e","n","a","b","l","e","-","m","e","t","r","i","c","s","\n">>
STATUS_UNAVAILABLE == <<"5","0","3"," ","S","e","r","v","i","c","e"," ","U","n","a","v","a","i","l","a","b","l","e">>

MetricsUnavailable == ~uwsgi.has_metrics \/ uwsgi.metrics = <<>>

\* C9: while metrics are unavailable a routed request is answered with status
\* 503 and the fixed body, and no generation pass is started for it.
C9_UnavailableIs503 ==
    \A w \in Workers :
        MetricsUnavailable =>
            /\ gen[w] = GenIdle
            /\ route[w].pc = "idle"
            /\ route[w].ret = "BREAK" =>
                 /\ ~route[w].generated
                 /\ Len(route[w].calls) >= 1
                 /\ route[w].calls[1].op = "prepare_headers"
                 /\ route[w].calls[1].arg = STATUS_UNAVAILABLE
                 /\ IF route[w].calls[1].ok
                    THEN /\ Len(route[w].calls) = 2
                         /\ route[w].calls[2].op = "write_body"
                         /\ route[w].calls[2].arg = BODY_NOT_INITIALIZED
                    ELSE Len(route[w].calls) = 1

C9_Witness ==
    /\ uwsgi.has_metrics /\ uwsgi.metrics = <<>>
    /\ route["w1"].ret = "BREAK"
    /\ Len(route["w1"].calls) = 2
    /\ route["w1"].calls[2].ok

\* the decimal number a sequence of digit characters writes
DigitValue(ch) == CHOOSE d \in 0..9 : DigitChar(d) = ch
RECURSIVE ParseNat(_)
ParseNat(ds) ==
    IF Len(ds) = 0 THEN 0
    ELSE 10 * ParseNat(SubSeq(ds, 1, Len(ds) - 1)) + DigitValue(ds[Len(ds)])

\* an HTTP response split at the blank line: its header lines and its body
HeadEnds(resp) ==
    {k \in 1..Len(resp) - 3 : SubSeq(resp, k, k + 3) = <<"\r", "\n", "\r", "\n">>}
HasHead(resp) == HeadEnds(resp) # {}
HeadEnd(resp) == CHOOSE k \in HeadEnds(resp) : \A h \in HeadEnds(resp) : k <= h
HeaderLines(resp) ==
    LET raw == SplitOn(SubSeq(resp, 1, HeadEnd(resp) - 1), "\n")
    IN  [k \in 1..Len(raw) |-> SelectSeq(raw[k], LAMBDA ch : ch # "\r")]
ResponseBody(resp) == SubSeq(resp, HeadEnd(resp) + 4, Len(resp))

HTTP_200 == <<"H","T","T","P","/","1",".","0"," ","2","0","0"," ","O","K">>
ROUTE_200 == <<"2","0","0"," ","O","K">>
EXPOSITION_TYPE == <<"t","e","x","t","/","p","l","a","i","n",";"," ","v","e","r","s","i","o","n","=","0",".","0",".","4",";"," ","c","h","a","r","s","e","t","=","u","t","f","-","8">>
FIELD_CONTENT_TYPE == <<"C","o","n","t","e","n","t","-","T","y","p","e",":"," ">>
FIELD_CONTENT_LENGTH == <<"C","o","n","t","e","n","t","-","L","e","n","g","t","h",":"," ">>

\* the values of the header lines of one field
FieldValues(lines, field) ==
    {SubSeq(lines[k], Len(field) + 1, Len(lines[k])) :
        k \in {h \in 1..Len(lines) : StartsWith(lines[h], field)}}

\* what the route handler hands to the host for a generated buffer, when no
\* host call fails; a failing call ends the sequence
RouteAnswers200(calls, body) ==
    /\ Len(calls) \in 1..4
    /\ \A k \in 1..Len(calls) - 1 : calls[k].ok
    /\ calls[Len(calls)].ok => Len(calls) = 4
    /\ calls[1].op = "prepare_headers" /\ calls[1].arg = ROUTE_200
    /\ Len(calls) >= 2 =>
         calls[2].op = "add_content_type" /\ calls[2].arg = EXPOSITION_TYPE
    /\ Len(calls) >= 3 =>
         calls[3].op = "add_content_length" /\ calls[3].len = Len(body)
    /\ Len(calls) >= 4 =>
         calls[4].op = "write_body" /\ calls[4].arg = body /\ calls[4].len = Len(body)

\* what the dedicated server puts on the wire for a generated buffer
ServerAnswers200(resp, body) ==
    /\ HasHead(resp)
    /\ LET lines == HeaderLines(resp)
       IN  /\ lines[1] = HTTP_200
           /\ FieldValues(lines, FIELD_CONTENT_TYPE) = {EXPOSITION_TYPE}
           /\ \A v \in FieldValues(lines, FIELD_CONTENT_LENGTH) :
                 Len(v) > 0 /\ \A k \in 1..Len(v) : v[k] \in Digits
           /\ {ParseNat(v) : v \in FieldValues(lines, FIELD_CONTENT_LENGTH)}
                = {Len(body)}
    /\ ResponseBody(resp) = body

\* C6: after a successful generation the route handler answers 200 with the
\* exposition content type, the buffer's length as content length and the
\* buffer as body, and the dedicated server writes a 200 response with the
\* same content type, a Content-Length equal to the buffer's size and exactly
\* the buffer's bytes as body.
C6_SuccessResponse ==
    /\ \A w \in Workers :
         (route[w].ret = "BREAK" /\ route[w].metrics_ret = "ub") =>
             RouteAnswers200(route[w].calls, route[w].metrics)
    /\ \A c \in Clients :
         (clients[c].st = "closed" /\ clients[c].metrics_ret = "ub"
            /\ clients[c].wrote = <<TRUE, TRUE>>) =>
             ServerAnswers200(clients[c].rx, clients[c].metrics)

C6_Witness ==
    /\ route["w1"].ret = "BREAK" /\ route["w1"].metrics_ret = "ub"
    /\ Len(route["w1"].calls) = 4 /\ route["w1"].calls[4].ok
    /\ Len(route["w1"].metrics) > 9
    /\ clients[1].st = "closed" /\ clients[1].metrics_ret = "ub"
    /\ clients[1].wrote = <<TRUE, TRUE>>
    /\ Len(clients[1].metrics) > 9

Accepted(c) == clients[c].acc_tick # 0
Served(c) == clients[c].st = "closed" /\ clients[c].metrics_ret # "none"

\* C7: a tick makes at most one accept call, and only after its readiness
\* check found a pending connection; no two clients are accepted in the same
\* tick; unless an accept call failed, a pending client is accepted no later
\* than the tick its place in the queue gives it, and once the tick is over a
\* client that had sent its request has been served.
C7_OneAcceptPerTick ==
    /\ CountOf(server.ops, "accept") <= 1
    /\ \A k \in 1..Len(server.ops) :
         server.ops[k] = "accept" =>
            k = 2 /\ server.ops[1] = "select" /\ server.qlen > 0
    /\ \A c, d \in Clients :
         (Accepted(c) /\ Accepted(d) /\ c # d) =>
            clients[c].acc_tick # clients[d].acc_tick
    /\ ~server.accept_failed =>
         \A c \in Clients :
            (clients[c].st # "new" /\ clients[c].deadline <= server.ticks) =>
               clients[c].acc_tick = clients[c].deadline
    /\ server.pc = "idle" =>
         \A c \in Clients :
            /\ Accepted(c) => clients[c].st = "closed"
            /\ (Accepted(c) /\ clients[c].sent) => Served(c)

\* two clients pending together before the first tick, served by ticks 1 and 2
C7_Witness ==
    /\ server.ticks = 2 /\ server.pc = "idle"
    /\ clients[1].deadline + clients[2].deadline = 3
    /\ \A c \in {1, 2} :
         /\ clients[c].sent /\ Served(c)
         /\ clients[c].acc_tick = clients[c].deadline
         /\ Len(clients[c].rx) > 0

\* C10: the listening descriptor changes only in the post-startup
\* initialization, and then only from unbound to bound with a listen address
\* configured and master mode active; the initialization happens once; a tick
\* of an unbound server makes no call and changes nothing else.
C10_Lifecycle ==
    [][/\ server.phase = "loaded" => ump_config.server_fd < 0
       /\ server.phase = "running" => server'.phase = "running"
       /\ ump_config'.server_fd # ump_config.server_fd =>
            /\ server.phase = "loaded" /\ server'.phase = "running"
            /\ ump_config.server_address /\ uwsgi.master_process
            /\ ump_config.server_fd < 0 /\ ump_config'.server_fd >= 0
       /\ (ump_config.server_fd < 0 /\ server'.ticks # server.ticks) =>
            /\ server'.ops = <<>>
            /\ server' = [server EXCEPT !.ticks = server'.ticks, !.ops = <<>>]
            /\ UNCHANGED <<ump_config, clients, gen>>
      ]_vars

\* a bind failure, followed by ticks
C10_Witness ==
    /\ server.phase = "running"
    /\ ump_config.server_address /\ uwsgi.master_process
    /\ ump_config.server_fd < 0
    /\ server.ticks = 2

\* the value the k-th metric line of an exposition text gives
SampleValue(l) ==
    LET text == SubSeq(l, Len(TakeUntil(l, {" "})) + 2, Len(l))
    IN  IF Len(text) > 0 /\ text[1] = "-"
        THEN 0 - ParseNat(Tail(text))
        ELSE ParseNat(text)

\* C8: the value a pass has read under the read lock, and every value it has
\* emitted, is one the metric held at some instant since the pass started.
C8_NoTornRead ==
    \A p \in Procs :
        /\ gen[p].pc \in {"unlock", "value"} =>
             gen[p].value \in held[p][gen[p].um]
        /\ gen[p].pc # "idle" =>
             LET samples == SelectSeq(Lines(gen[p].ub), IsSample)
             IN  /\ Len(samples) = Len(gen[p].src)
                 /\ \A k \in 1..Len(samples) :
                      SampleValue(samples[k]) \in held[p][gen[p].src[k]]

\* a pass that started before an update and emitted the updated value
C8_Witness ==
    \E p \in Workers :
        /\ gen[p].pc # "idle" /\ Len(gen[p].src) > 0
        /\ Cardinality(held[p][gen[p].src[1]]) = 2
        /\ SampleValue(Lines(gen[p].ub)[3]) = HalfRadix

HTTP_1_0 == <<"H","T","T","P","/","1",".","0"," ">>
FIELD_CONNECTION_CLOSE == <<"C","o","n","n","e","c","t","i","o","n",":"," ","c","l","o","s","e">>

\* the peers whose connection received the head of a response
GotResponseHead(c) ==
    /\ clients[c].st = "closed"
    /\ clients[c].metrics_ret # "none"
    /\ Len(clients[c].wrote) > 0 /\ clients[c].wrote[1]

\* C11: every response of the dedicated server, 200 or 500, starts with an
\* HTTP/1.0 status line and has the header line Connection: close.
C11_Http10ConnectionClose ==
    \A c \in Clients :
        GotResponseHead(c) =>
            /\ HasHead(clients[c].rx)
            /\ LET lines == HeaderLines(clients[c].rx)
               IN  /\ StartsWith(lines[1], HTTP_1_0)
                   /\ \E k \in 2..Len(lines) : lines[k] = FIELD_CONNECTION_CLOSE

\* C11 (as the code has it): every response of the dedicated server starts
\* with an HTTP/1.0 status line; the 200 response has the header line
\* Connection: close, the fixed 500 response has no Connection header; after
\* either response the server has closed the connection, once.
C11_Http10AndClose ==
    \A c \in Clients :
        GotResponseHead(c) =>
            /\ HasHead(clients[c].rx)
            /\ clients[c].closes = 1
            /\ LET lines == HeaderLines(clients[c].rx)
                   closing == {k \in 2..Len(lines) : lines[k] = FIELD_CONNECTION_CLOSE}
               IN  /\ StartsWith(lines[1], HTTP_1_0)
                   /\ clients[c].metrics_ret = "ub" => Cardinality(closing) = 1
                   /\ clients[c].metrics_ret = "NULL" =>
                        FieldValues(lines, <<"C","o","n","n","e","c","t","i","o","n",":">>) = {}

\* one peer answered with 200 and another with 500
C11_Witness ==
    /\ GotResponseHead(1) /\ clients[1].metrics_ret = "ub"
    /\ GotResponseHead(2) /\ clients[2].metrics_ret = "NULL"

\* the peers whose request the server has read and answered
Answered(c) == clients[c].st = "closed" /\ clients[c].sent

\* C12: against an unchanged registry and configuration, any two peers whose
\* request was read receive byte-identical responses, whatever bytes each of
\* them sent.
C12_ResponseIgnoresRequest ==
    \A c, d \in Clients :
        (Answered(c) /\ Answered(d)) =>
            /\ Len(clients[c].rx) > 0
            /\ clients[c].rx = clients[d].rx

\* two peers answered, one after a GET request, one after bytes that are no
\* HTTP request
C12_Witness ==
    /\ Answered(1) /\ Answered(2)
    /\ clients[1].request = REQUEST_GET
    /\ clients[2].request = REQUEST_NO_HTTP
    /\ clients[1].rx = clients[2].rx
    /\ HasHead(clients[1].rx)


\* the peers a pass of the master process has answered with its buffer
PassServed(c) == clients[c].metrics_ret = "ub"

RAW_WORKER_PREFIX == <<"w","o","r","k","e","r",".">>
IsWorkerRecord(rec) == StartsWith(rec.name, RAW_WORKER_PREFIX)

\* the raw name a HELP line ends with
HelpRawName(l) ==
    LET rest == SubSeq(l, 8, Len(l))
    IN  SubSeq(rest, Len(TakeUntil(rest, {" "})) + 2, Len(rest))

LENGTH_ZERO == <<"0">>

\* C15: while the registry is absent or metrics are disabled, a generation
\* pass returns at once with a successful buffer of zero bytes, and the
\* dedicated server answers the peer with its 200 response, Content-Length 0
\* and an empty body, not with the error response.
C15_UnavailableIsEmpty ==
    MetricsUnavailable =>
        /\ \A p \in Procs :
              gen[p].pc # "idle" =>
                  gen[p].pc = "ret" /\ gen[p].ret = "ub" /\ gen[p].ub = <<>>
        /\ \A c \in Clients :
              Served(c) =>
                  /\ clients[c].metrics_ret = "ub"
                  /\ clients[c].metrics = <<>>
                  /\ IF clients[c].wrote[1]
                     THEN /\ HasHead(clients[c].rx)
                          /\ HeaderLines(clients[c].rx)[1] = HTTP_200
                          /\ FieldValues(HeaderLines(clients[c].rx),
                                         FIELD_CONTENT_LENGTH) = {LENGTH_ZERO}
                          /\ ResponseBody(clients[c].rx) = <<>>
                     ELSE clients[c].rx = <<>>

\* a peer answered, both writes done, while metrics are enabled and the
\* registry is absent
C15_Witness ==
    /\ uwsgi.has_metrics /\ uwsgi.metrics = <<>>
    /\ Served(1) /\ clients[1].wrote = <<TRUE, TRUE>>
    /\ HasHead(clients[1].rx)
    /\ ResponseBody(clients[1].rx) = <<>>


BREAK_CHAIN == "BREAK"
RouteFinished(w) == route[w].pc = "idle" /\ Len(route[w].calls) > 0

\* C16: whatever the outcome of a routed request (503, 500, 200, or a host
\* response primitive that failed), the route handler returns the value that
\* stops the route chain.
C16_AlwaysBreak ==
    \A w \in Workers :
        /\ route[w].ret \in {"none", BREAK_CHAIN}
        /\ RouteFinished(w) => route[w].ret = BREAK_CHAIN

\* a request whose pass succeeded and whose add_content_length call failed
C16_Witness ==
    /\ RouteFinished("w1")
    /\ route["w1"].metrics_ret = "ub"
    /\ Len(route["w1"].calls) = 3
    /\ route["w1"].calls[3].op = "add_content_length"
    /\ ~route["w1"].calls[3].ok
    /\ route["w1"].ret = BREAK_CHAIN


TYPE_COUNTER == <<"c","o","u","n","t","e","r">>
TYPE_GAUGE == <<"g","a","u","g","e">>
TYPE_UNTYPED == <<"u","n","t","y","p","e","d">>

\* the documented mapping of type tags
MappedType(tag) ==
    IF tag = "COUNTER" THEN TYPE_COUNTER
    ELSE IF tag \in {"GAUGE", "ABSOLUTE"} THEN TYPE_GAUGE
    ELSE TYPE_UNTYPED

\* what a TYPE line says after the flat name
TypeLineType(l) ==
    LET rest == SubSeq(l, 8, Len(l))
    IN  SubSeq(rest, Len(TakeUntil(rest, {" "})) + 2, Len(rest))

\* the record behind the first metric line after line j
RecordAfter(p, ls, j) ==
    LET m == CHOOSE m \in j + 1..Len(ls) :
                 IsSample(ls[m]) /\ \A q \in j + 1..m - 1 : ~IsSample(ls[q])
        k == Cardinality({q \in 1..m : IsSample(ls[q])})
    IN  uwsgi.metrics[gen[p].src[k]]

\* C17: every TYPE line in the output of a pass states the type mapped from
\* the type tag of the record it was written for: counter for Counter, gauge
\* for Gauge and for Absolute, untyped for any other tag.
C17_TypeMapping ==
    \A p \in Procs :
        PassReturned(p) =>
            LET ls == Lines(gen[p].ub)
            IN  /\ Len(SelectSeq(ls, IsSample)) = Len(gen[p].src)
                /\ \A j \in 1..Len(ls) :
                     LineKind(ls[j]) = "type" =>
                        /\ \E m \in j + 1..Len(ls) : IsSample(ls[m])
                        /\ TypeLineType(ls[j]) = MappedType(RecordAfter(p, ls, j).type)

\* a pass that wrote TYPE lines for a Counter, an Absolute and an Alias record
C17_Witness ==
    /\ PassReturned("w1")
    /\ LET ls == Lines(gen["w1"].ub)
           typed == {RecordAfter("w1", ls, j).type :
                        j \in {h \in 1..Len(ls) : LineKind(ls[h]) = "type"}}
       IN  {"COUNTER", "ABSOLUTE", "ALIAS"} \subseteq typed


\* the metric line of record i: name, labels in braces when there are any,
\* a space and the value
ExpectedSample(i) ==
    LET rec == uwsgi.metrics[i]
        labels == prometheus_format_metric_name(rec.name, ConfigPrefix(ump_config),
                                                <<>>).labels_buf
    IN  ExposedName(rec)
          \o (IF Len(labels) > 0 THEN <<"{">> \o labels \o <<"}">> ELSE <<>>)
          \o <<" ">> \o Num64(metric_value[i])

\* the metric lines of a complete pass, from the registry alone
ExpectedSamples ==
    LET emitted == {i \in 1..Len(uwsgi.metrics) :
                       /\ uwsgi.metrics[i].has_value
                       /\ Len(uwsgi.metrics[i].name) > 0
                       /\ Len(ExposedName(uwsgi.metrics[i])) > 0
                       /\ ~(ump_config.no_workers /\ IsWorkerRecord(uwsgi.metrics[i]))}
        nth(k) == CHOOSE i \in emitted : Cardinality({h \in emitted : h < i}) = k - 1
    IN  [k \in 1..Cardinality(emitted) |-> ExpectedSample(nth(k))]

\* C18: the output of a pass has no HELP line when include_help is off and no
\* TYPE line when include_type is off, and its metric lines are the same
\* sequence, fixed by the registry, under every setting of the two flags.
C18_FlagsOnlyDropComments ==
    \A p \in Procs :
        PassReturned(p) =>
            LET ls == Lines(gen[p].ub)
            IN  /\ ~ump_config.include_help =>
                     \A j \in 1..Len(ls) : LineKind(ls[j]) # "help"
                /\ ~ump_config.include_type =>
                     \A j \in 1..Len(ls) : LineKind(ls[j]) # "type"
                /\ SelectSeq(ls, IsSample) = ExpectedSamples

\* a pass with both flags off whose output is three metric lines and nothing
\* else, two of them with one flat name
C18_Witness ==
    /\ PassReturned("w1")
    /\ ~ump_config.include_help /\ ~ump_config.include_type
    /\ Len(ExpectedSamples) = 3
    /\ Lines(gen["w1"].ub) = ExpectedSamples
    /\ \E j, k \in 1..3 : j # k /\ LineName(ExpectedSamples[j]) = LineName(ExpectedSamples[k])


\* C19: a pass in which an append outside the name translation has failed
\* (the _total suffix, a HELP, TYPE or metric line, the value) returns an
\* error and no buffer, so that no caller is handed a partial exposition.
C19_AppendFailureAborts ==
    \A p \in Procs :
        (gen[p].pc = "ret" /\ gen[p].append_failed) =>
            gen[p].ret = "NULL" /\ gen[p].ub = <<>>


\* the steps of a pass between uwsgi_rlock and uwsgi_rwunlock
CopyingValue(p) == gen[p].pc \in {"read", "unlock"}

\* C20: a pass takes the metrics lock in read mode only, once for each metric
\* line it emits, and holds it exactly while it copies the value: not while it
\* walks the list, translates, appends, at a return, or while its caller does
\* I/O; a pass that asks for the lock while no writer holds it gets it, other
\* passes holding it or not.
C20_ReadLockPerValue ==
    /\ ~metrics_lock.writer
    /\ \A p \in Procs :
          /\ p \in metrics_lock.readers <=> CopyingValue(p)
          /\ (gen[p].pc = "record" \/ PassReturned(p)) =>
                /\ gen[p].rlocks = Len(gen[p].src)
                /\ Len(SelectSeq(Lines(gen[p].ub), IsSample)) = gen[p].rlocks
          /\ gen[p].pc \in {"read", "unlock", "value"} =>
                gen[p].rlocks = Len(gen[p].src) + 1
          /\ gen[p].pc = "rlock" => ENABLED GenRLock(p)

\* two passes hold the lock at once, one of them for its second value
C20_Witness ==
    /\ metrics_lock.readers = Workers
    /\ gen["w1"].rlocks = 2
    /\ gen["w2"].rlocks = 1


\* the non-empty segments of a dotted name
KeptSegments(name) == SelectSeq(SplitOn(name, "."), LAMBDA seg : Len(seg) > 0)

\* a text segment as it shows in the flat name
Cleaned(seg) ==
    [k \in 1..Len(seg) |->
        IF seg[k] \in Letters \cup Digits \cup {"_"} THEN seg[k] ELSE "_"]

\* the k-th segment is text, a text segment comes before it, and the segment
\* just before it is text too
Separated(segs, k) ==
    /\ \E h \in 1..k - 1 : ~AllDigits(segs[h])
    /\ ~AllDigits(segs[k - 1])

RECURSIVE FlatFrom(_, _)
FlatFrom(segs, k) ==
    IF k > Len(segs) THEN <<>>
    ELSE (IF AllDigits(segs[k]) THEN <<>>
          ELSE (IF Separated(segs, k) THEN <<"_">> ELSE <<>>) \o Cleaned(segs[k]))
         \o FlatFrom(segs, k + 1)

FLAT_WORKERREQUESTS == <<"u","w","s","g","i","_","w","o","r","k","e","r","r","e","q","u","e","s","t","s">>

InHand(c) == server.client_fd = c

OPS_READ_REJECTED == <<"select", "accept", "fcntl", "read", "close">>

\* C22: a connection the dedicated server accepted is closed once, by the
\* tick that accepted it, on every path; after a read of zero or fewer bytes
\* it is closed with no generation pass and no byte written; the listening
\* socket stays bound throughout.
C22_ClosedOncePerAccept ==
    /\ \A c \in Clients :
          /\ clients[c].closes <= 1
          /\ clients[c].closes = 1 <=> (Accepted(c) /\ ~InHand(c))
          /\ clients[c].closes = 1 <=> clients[c].st = "closed"
          /\ InHand(c) => Accepted(c) /\ clients[c].acc_tick = server.ticks
          /\ (clients[c].st = "closed" /\ ~Served(c)) =>
                /\ ~clients[c].sent
                /\ clients[c].rx = <<>> /\ clients[c].wrote = <<>>
                /\ clients[c].metrics_ret = "none"
                /\ clients[c].acc_tick = server.ticks => server.ops = OPS_READ_REJECTED
          /\ clients[c].st # "new" => ump_config.server_fd = 3
    /\ CountOf(server.ops, "close") <= 1
    /\ (server.pc = "idle" /\ CountOf(server.ops, "fcntl") = 1) =>
          server.ops[Len(server.ops)] = "close"
    /\ server.pc # "idle" => CountOf(server.ops, "close") = 0

\* a connection closed after a failed read in the first tick, and another one
\* served in the second tick although its header write failed
C22_Witness ==
    /\ server.pc = "idle" /\ server.ticks = 2
    /\ clients[1].acc_tick = 1 /\ clients[1].closes = 1 /\ ~Served(1)
    /\ clients[2].acc_tick = 2 /\ clients[2].closes = 1
    /\ clients[2].wrote = <<FALSE, TRUE>>


\* the tick waits in read() for a peer that has neither sent nor closed
Stalled(c) ==
    /\ server.pc = "read" /\ server.client_fd = c
    /\ ~clients[c].sent /\ ~clients[c].hup

\* the tick is handling a peer that has sent or closed
HandlingReadyPeer ==
    /\ server.pc # "idle"
    /\ clients[server.client_fd].sent \/ clients[server.client_fd].hup

\* C23: the request read has no timeout.  While the accepted peer neither
\* sends nor closes, the tick stays in the read and no other connection is
\* accepted, answered or closed; a tick of an unbound server or with no
\* connection pending returns at once, and a tick whose peer has sent or
\* closed returns.
C23_NoReadTimeout ==
    /\ [][/\ \A c \in Clients :
               Stalled(c) =>
                  /\ server'.pc = "read" /\ server'.client_fd = c
                  /\ server'.ticks = server.ticks
                  /\ \A d \in Clients \ {c} :
                        /\ clients'[d].acc_tick = clients[d].acc_tick
                        /\ clients'[d].closes = clients[d].closes
                        /\ clients'[d].rx = clients[d].rx
          /\ (server'.ticks # server.ticks
                /\ (ump_config.server_fd < 0 \/ server.backlog = <<>>)) =>
               server'.pc = "idle"
         ]_vars
    /\ HandlingReadyPeer ~> server.pc = "idle"

\* the tick waits for a silent peer while another connection is pending
C23_Witness ==
    /\ Stalled(1)
    /\ clients[2].st = "pending" /\ clients[2].sent
    /\ server.backlog = <<2>>


\* the values on the metric lines of an exposition text, in line order
SampleValues(text) ==
    LET samples == SelectSeq(Lines(text), IsSample)
    IN  [k \in 1..Len(samples) |-> SampleValue(samples[k])]

\* the instants of gen[p].snaps at which metric i held the value v
InstantsOf(p, i, v) == {n \in 1..Len(gen[p].snaps) : gen[p].snaps[n][i] = v}

\* the output of the pass is what the metrics held together at some instant
IsSnapshot(p) ==
    \E n \in 1..Len(gen[p].snaps) : SampleValues(gen[p].ub) = gen[p].snaps[n]

\* C24: the values in the output of a pass are each the value of their metric
\* at an instant of the pass, the instants going forward from line to line
\* and not being one instant for all lines: a pass between two value reads
\* holds no lock, and a writer's updates in between give the output values
\* the metrics never held together.
C24_ValuesOfSeveralInstants ==
    \A p \in Procs :
        /\ gen[p].pc \in {"record", "rlock", "value"} => p \notin metrics_lock.readers
        /\ PassReturned(p) =>
             LET out == SampleValues(gen[p].ub)
             IN  /\ Len(out) = Len(gen[p].src)
                 /\ \A k \in 1..Len(out) :
                       InstantsOf(p, gen[p].src[k], out[k]) # {}
                 /\ \A j, k \in 1..Len(out) :
                       j < k =>
                          \E m \in InstantsOf(p, gen[p].src[j], out[j]),
                             n \in InstantsOf(p, gen[p].src[k], out[k]) : m <= n

\* a pass returned the first metric's value from before an update and the
\* second metric's value from after one, which the metrics never held together
C24_Witness ==
    /\ PassReturned("w1")
    /\ Len(SampleValues(gen["w1"].ub)) = 2
    /\ ~IsSnapshot("w1")
    /\ SampleValues(gen["w1"].ub)[1] = gen["w1"].snaps[1][1]
    /\ SampleValues(gen["w1"].ub)[2] # gen["w1"].snaps[1][2]


\* record i of the registry is one the pass p skipped: it has no name or no
\* value reference, or its name translation failed in this pass
Skipped(p, i) ==
    \/ Len(uwsgi.metrics[i].name) = 0
    \/ ~uwsgi.metrics[i].has_value
    \/ i \in gen[p].fmt_failed

\* the records of the registry without the skipped ones that have lines in
\* the output, in registry order
RemainingRecords(p) ==
    LET emitted == {i \in 1..Len(uwsgi.metrics) :
                       /\ ~Skipped(p, i)
                       /\ Len(ExposedName(uwsgi.metrics[i])) > 0
                       /\ ~(ump_config.no_workers /\ IsWorkerRecord(uwsgi.metrics[i]))}
        nth(k) == CHOOSE i \in emitted : Cardinality({h \in emitted : h < i}) = k - 1
    IN  [k \in 1..Cardinality(emitted) |-> nth(k)]

\* the lines of the k-th of the records rs: HELP and TYPE when enabled and no
\* earlier record of rs has the flat name, then the metric line
LinesOfRecord(rs, k) ==
    LET rec == uwsgi.metrics[rs[k]]
        name == ExposedName(rec)
        first == \A h \in 1..k - 1 : ExposedName(uwsgi.metrics[rs[h]]) # name
    IN  (IF first /\ ump_config.include_help
         THEN << HELP_MARK \o name \o <<" ">> \o rec.name >> ELSE <<>>)
        \o (IF first /\ ump_config.include_type
            THEN << TYPE_MARK \o name \o <<" ">> \o MappedType(rec.type) >> ELSE <<>>)
        \o << ExpectedSample(rs[k]) >>

RECURSIVE LinesFrom(_, _)
LinesFrom(rs, k) ==
    IF k > Len(rs) THEN <<>> ELSE LinesOfRecord(rs, k) \o LinesFrom(rs, k + 1)

\* C25: a record with an empty name or without a value reference, and a
\* record whose name translation fails, is skipped without error: a pass in
\* which no other append failed returns success, and its output is line for
\* line the output for the registry without the skipped records, one metric
\* line per remaining record in registry order.
C25_SkippedAsIfAbsent ==
    \A p \in Procs :
        (gen[p].pc = "ret" /\ ~gen[p].append_failed /\ ~MetricsUnavailable) =>
            /\ gen[p].ret = "ub"
            /\ gen[p].src = RemainingRecords(p)
            /\ Lines(gen[p].ub) = LinesFrom(RemainingRecords(p), 1)

\* a pass that skipped a record without a name and one whose translation
\* failed and then emitted the third record
C25_Witness ==
    /\ gen["w1"].pc = "ret" /\ ~gen["w1"].append_failed
    /\ Len(uwsgi.metrics) = 3
    /\ \E i, j \in 1..2 :
          /\ i # j
          /\ Len(uwsgi.metrics[i].name) = 0 \/ ~uwsgi.metrics[i].has_value
          /\ j \in gen["w1"].fmt_failed
    /\ gen["w1"].src = <<3>>
    /\ Len(Lines(gen["w1"].ub)) = 3


\* the non-empty segments of a dotted name, each cut to its first n bytes
CappedSegments(name, n) ==
    LET segs == KeptSegments(name)
    IN  [k \in 1..Len(segs) |->
           IF Len(segs[k]) > n THEN SubSeq(segs[k], 1, n) ELSE segs[k]]

\* key="value" pairs for the first four numeric ones of the segments segs
LabelsOfSegments(segs) ==
    LET nums == SelectSeq(segs, AllDigits)
        n == IF Len(nums) < 4 THEN Len(nums) ELSE 4
    IN  JoinWith([k \in 1..n |-> LabelKeys[k] \o <<"=", "\"">> \o nums[k] \o <<"\"">>],
                 <<",">>)

\* the translation is the one of the name with every segment cut to n bytes:
\* no error unless an append fails, the numeric ones of the cut segments
\* (non-empty, all digits) as labels, the others sanitized in the flat name
TranslatesCappedTo(n) ==
    /\ (tr.pc = "done" /\ tr.allow = <<>>) => tr.rc = 0
    /\ TranslateDone =>
          LET segs == CappedSegments(tr.name, n)
          IN  /\ tr.name_buf = tr.prefix \o FlatFrom(segs, 1)
              /\ tr.labels_buf = LabelsOfSegments(segs)

\* C26 as stated: each segment is capped to its first 256 bytes, the rest
\* dropped without error; the capped segment is numeric iff it is non-empty
\* and all digits; a non-numeric segment is sanitized character by character.
C26_SegmentCap256 == TranslatesCappedTo(256)

\* C26: each segment is capped to its first 255 bytes (the segment buffer of
\* 256 bytes less one), the rest dropped without error; the capped segment is
\* numeric iff it is non-empty and all digits; a non-numeric segment is
\* sanitized character by character before it is appended to the flat name.
C26_SegmentCap255 == TranslatesCappedTo(255)

\* a translated name of 255 digits and a letter, then 257 characters to
\* sanitize: the first segment became a label, the second 255 underscores
C26_Witness ==
    /\ TranslateDone
    /\ LET segs == KeptSegments(tr.name)
       IN  /\ Len(segs) = 2
           /\ Len(segs[1]) = 256 /\ ~AllDigits(segs[1])
           /\ AllDigits(SubSeq(segs[1], 1, 255))
           /\ Len(segs[2]) = 257 /\ segs[2][1] = "-"
    /\ Len(tr.name_buf) = Len(tr.prefix) + 255
    /\ CountOf(tr.labels_buf, "7") = 255


\* the flat name a TYPE line is about
TypeLineName(l) == TakeUntil(SubSeq(l, 8, Len(l)), {" "})

\* C27: with TYPE enabled, every metric line in the output of a pass has a
\* TYPE line for its flat name, and the type that line declares is the one
\* mapped from the type tag of the metric line's own record, also when
\* records of different types share the flat name.
C27_TypeOfEveryLine ==
    \A p \in Procs :
        (PassReturned(p) /\ ump_config.include_type /\ ~gen[p].append_failed) =>
            LET ls == Lines(gen[p].ub)
                samples == SelectSeq(ls, IsSample)
            IN  /\ Len(samples) = Len(gen[p].src)
                /\ \A k \in 1..Len(samples) :
                      /\ \E j \in 1..Len(ls) :
                            /\ LineKind(ls[j]) = "type"
                            /\ TypeLineName(ls[j]) = LineName(samples[k])
                      /\ \A j \in 1..Len(ls) :
                            (/\ LineKind(ls[j]) = "type"
                             /\ TypeLineName(ls[j]) = LineName(samples[k])) =>
                               TypeLineType(ls[j])
                                 = MappedType(uwsgi.metrics[gen[p].src[k]].type)


\* the series of a metric line: its flat name with the label list
SeriesOf(l) == TakeUntil(l, {" "})

\* C28: the registry's raw names being pairwise distinct, no two metric lines
\* in the output of a pass carry the same flat name with the same label list.
C28_DistinctSeries ==
    \A p \in Procs :
        (/\ PassReturned(p)
         /\ \A i, j \in 1..Len(uwsgi.metrics) :
               uwsgi.metrics[i].name = uwsgi.metrics[j].name => i = j) =>
            LET samples == SelectSeq(Lines(gen[p].ub), IsSample)
            IN  \A j, k \in 1..Len(samples) :
                   SeriesOf(samples[j]) = SeriesOf(samples[k]) => j = k


\* the peers that received the response written after a failed pass
Got500(c) == GotResponseHead(c) /\ clients[c].metrics_ret = "NULL"

\* C29: the 500 response of the dedicated server declares as Content-Length
\* the number of bytes of the body it sends after the blank line.
C29_Length500 ==
    \A c \in Clients :
        Got500(c) =>
            /\ HasHead(clients[c].rx)
            /\ \E v \in FieldValues(HeaderLines(clients[c].rx), FIELD_CONTENT_LENGTH) :
                  ParseNat(v) = Len(ResponseBody(clients[c].rx))


\* the buffers every pass allocates
PassBuffers == {"ub", "name_buf", "labels_buf", "seen_names"}

\* every buffer of the ledger m that was allocated has been destroyed, once,
\* and none was touched while it was not live
AllReleased(m, allocated) ==
    \A b \in DOMAIN m :
        m[b] = (IF b \in allocated THEN "destroyed" ELSE "none")

\* C30: when a handler of either adapter has returned, every buffer allocated
\* for the request (exposition buffer, name buffer, label buffer, seen-name
\* set, response-header buffer) has been destroyed exactly once, on every exit
\* path (metrics disabled, generation error, a failed header or body write,
\* success); until then none is destroyed twice or used after its destruction,
\* and a pass hands its caller either a live exposition buffer or none.
C30_BuffersReleasedOnce ==
    /\ \A p \in Procs :
          /\ \A b \in DOMAIN gen[p].mem : gen[p].mem[b] # "bad"
          /\ gen[p].pc = "idle" => AllReleased(gen[p].mem, {})
          /\ gen[p].pc \notin {"idle", "ret"} =>
                \A b \in PassBuffers : gen[p].mem[b] = "live"
          /\ gen[p].pc = "ret" =>
                /\ gen[p].mem["ub"] = (IF gen[p].ret = "ub" THEN "live" ELSE "destroyed")
                /\ \A b \in PassBuffers \ {"ub"} : gen[p].mem[b] = "destroyed"
    /\ \A w \in Workers :
          /\ route[w].pc = "idle" => gen[w].pc = "idle"
          /\ RouteFinished(w) =>
                AllReleased(route[w].mem,
                            IF route[w].generated THEN PassBuffers ELSE {})
    /\ server.pc = "idle" => gen[Master].pc = "idle"
    /\ \A c \in Clients :
          clients[c].st = "closed" =>
              AllReleased(clients[c].mem,
                          IF clients[c].metrics_ret = "none" THEN {}
                          ELSE IF clients[c].metrics_ret = "NULL" THEN PassBuffers
                          ELSE PassBuffers \cup {"response"})

\* a routed request whose body write failed after a successful pass, and a
\* peer of the server whose pass failed
C30_Witness ==
    /\ RouteFinished("w1")
    /\ route["w1"].metrics_ret = "ub"
    /\ Len(route["w1"].calls) = 4 /\ ~route["w1"].calls[4].ok
    /\ route["w1"].mem["ub"] = "destroyed"
    /\ clients[1].st = "closed" /\ clients[1].metrics_ret = "NULL"
    /\ clients[1].mem["ub"] = "destroyed"

=============================================================================
